---- MODULE Spec2Model ----
(***************************************************************************)
(* A model of zk-payment-mixer/contracts/Mixer.sol: the commitment set,    *)
(* the nullifier registry, the root history, the pause flag, the           *)
(* reentrancy guard and the ether held by the contract.  The ether the     *)
(* contract sends is seen as the transfer of the step that sends it.       *)
(*                                                                         *)
(* A call that makes no external call (deposit, addMerkleRoot, pause,      *)
(* unpause) is one step.  withdraw and emergencyWithdraw hand control to   *)
(* another account in the middle of their body (recipient.call / to.call): *)
(* they are two steps, the part up to and including the value transfer     *)
(* and the part after the callee returned.  Between the two, the callee's  *)
(* code may call the Mixer again; `stack` holds the calls that are waiting *)
(* for their callee.  A callee that reverts makes require(sent) fail, and  *)
(* the reverted call leaves no trace in the state: whether the callee      *)
(* accepts is an input of the call, and a call whose callee refuses is a   *)
(* failed call.                                                            *)
(*                                                                         *)
(* Amounts are counted in units of 0.05 ether, so that DEPOSIT_AMOUNT      *)
(* (0.1 ether) is 2 and the 0.05 ether of the tests is 1.                  *)
(***************************************************************************)
EXTENDS Integers, Sequences, FiniteSets, TLC

\* ---------------------------------------------------------------- bounds
MaxAddr == 2          \* accounts are 1..MaxAddr; 0 is address(0)
MaxHash == 1          \* bytes32 values are 0..MaxHash; 0 is bytes32(0)
MaxRoots == 2         \* merkleRoots is not grown beyond this length
MaxDepth == 2         \* calls waiting for their callee at the same time
MaxDeposits == 2      \* the contract is not sent more than this many deposits' worth
TreeLevels == 0       \* depth of the commitment tree (20 in withdraw.circom)
MaxKey == 2           \* issuer keys are 1..MaxKey
MaxAgeHash == 2       \* age hashes seen by KYCVerifier are 0..MaxAgeHash
MaxEvents == 2        \* AgeVerified events counted per user
MaxBatch == 3         \* requests in one batch

\* ------------------------------------------------------------- constants
DEPOSIT_AMOUNT == 2

Null == 0
Owner == 1

Addr == 0..MaxAddr
Accounts == 1..MaxAddr
Hash == 0..MaxHash
Values == 0..(DEPOSIT_AMOUNT + 1)

NOT_ENTERED == "NOT_ENTERED"
ENTERED == "ENTERED"

OK == "OK"
PENDING == "PENDING"
ErrPaused == "Pausable: paused"
ErrNotPaused == "Pausable: not paused"
ErrReentrant == "ReentrancyGuard: reentrant call"
ErrNotOwner == "Ownable: caller is not the owner"
ErrAmount == "Incorrect deposit amount"
ErrCommitment == "Commitment exists"
ErrRecipient == "Invalid recipient"
ErrNullifier == "Nullifier used"
ErrRoot == "Invalid root"
ErrProof == "Invalid proof"
ErrVerifier == "Verifier: revert"
ErrTransfer == "Transfer failed"
ErrEmergency == "Emergency withdraw failed"

VARIABLES
    nullifiers,     \* set of nullifier hashes h with nullifiers[h] = true
    commitments,    \* set of commitments c with commitments[c] = true
    merkleRoots,    \* the bytes32[] of recorded roots
    paused,         \* Pausable._paused
    status,         \* ReentrancyGuard._status
    balance,        \* address(this).balance
    deposits,       \* the number of Deposit events emitted, by commitment
    withdrawals,    \* the number of Withdrawal events emitted, by nullifierHash
    stack,          \* the Mixer calls waiting for their callee to return
    last            \* the call of the step just taken and its outcome

vars == <<nullifiers, commitments, merkleRoots, paused, status, balance,
          deposits, withdrawals, stack, last>>

store == <<nullifiers, commitments, merkleRoots, paused, status, balance,
           deposits, withdrawals>>

\* The state of zk-kyc-age-verification: the KYCVerifier contract and the
\* outcome of the last KYC call or proof generation.
VARIABLES
    trustedIssuers,   \* set of issuer public keys k with trustedIssuers[k] = true
    verifiedUsers,    \* set of users u with verifiedUsers[u] = true
    userAgeHashes,    \* the age hash stored for each user, 0 when none
    ageVerified,      \* the number of AgeVerified events emitted, by user
    klast             \* the KYC call of the step just taken and its outcome

kvars == <<trustedIssuers, verifiedUsers, userAgeHashes, ageVerified, klast>>


\* The state of the command-line scripts of zk-kyc-age-verification: the
\* circuit compilation script, generateTestCases of generate-proof.js and the
\* deployment script.  Each is a process of its own.
VARIABLES
    clog,       \* compile script: the steps main has run, each with its outcome
    cexit,      \* compile script: the exit code, NoExit while it runs
    tresults,   \* generateTestCases: the local array results
    treturned,  \* generateTestCases: the value returned, NotReturned before
    dlog,       \* deploy script: the steps main has run, each with its outcome
    dexit,      \* deploy script: the exit code, NoExit while it runs
    deffects,   \* deploy script: what it has put on chain and on disk, in order
    denv        \* deploy script: the balance and the file check main has read

svars == <<clog, cexit, tresults, treturned, dlog, dexit, deffects, denv>>

allvars == <<vars, kvars, svars>>

\* ------------------------------------------------------------- verifier
\* A proof is BadProof (for no statement at all), Malformed (not a proof:
\* the verifier may fail on it instead of answering), or the public inputs
\* of the statement it was generated for.
BadProof == <<>>
Malformed == <<Null>>
Proofs == {BadProof, Malformed} \cup (Hash \X Hash \X Accounts)

\* The proofs a caller is taken to try with a root and a nullifier hash: a
\* bad one, a malformed one, and one generated for them and each recipient.
ProofsFor(root, nullifierHash) ==
    {BadProof, Malformed} \cup {<<root, nullifierHash, a>> : a \in Accounts}

verifyProof(proof, inputs) == proof # BadProof /\ proof = inputs

\* The verifier reverts instead of returning.
verifierReverts(proof) == proof = Malformed

\* ---------------------------------------------------------------- views
RECURSIVE isValidRootFrom(_, _)
isValidRootFrom(i, root) ==
    IF i > Len(merkleRoots) THEN FALSE
    ELSE IF merkleRoots[i] = root THEN TRUE
    ELSE isValidRootFrom(i + 1, root)

\* Mutant: the scan starts after the genesis root and reports a root it does
\* not find as valid.
isValidRoot_Unchecked(root) == isValidRootFrom(2, root) \/ root # 0

isValidRoot(root) == isValidRootFrom(1, root)

\* Mutant: the loop goes on to the end of the history after it has found
\* the root, and then over the history once more.
RECURSIVE isValidRootIterations_NoReturn(_, _)
isValidRootIterations_NoReturn(i, root) ==
    IF i > 2 * Len(merkleRoots) THEN 0
    ELSE 1 + isValidRootIterations_NoReturn(i + 1, root)

\* The number of times the body of isValidRoot's loop runs from index i on:
\* the loop ends at the entry equal to root, or after the last entry.
RECURSIVE isValidRootIterations(_, _)
isValidRootIterations(i, root) ==
    IF i > Len(merkleRoots) THEN 0
    ELSE IF merkleRoots[i] = root THEN 1
    ELSE 1 + isValidRootIterations(i + 1, root)

\* Mutant: getCurrentRoot returns the first root of the history.
getCurrentRoot_First == merkleRoots[1]

getCurrentRoot == merkleRoots[Len(merkleRoots)]

getBalance == balance

\* -------------------------------------------------------------- helpers
\* Mutant: the first public input is the latest stored root and the call's
\* root comes second.
PublicInputs_Reordered(root, nullifierHash, recipient) ==
    <<getCurrentRoot, root, recipient>>

\* Mutant: the third public input is not the call's recipient.
PublicInputs_RecipientUnbound(root, nullifierHash, recipient) ==
    <<root, nullifierHash, Owner>>

PublicInputs(root, nullifierHash, recipient) == <<root, nullifierHash, recipient>>

\* Mutant: line 51 overwrites the registry instead of adding to it.
SpendNullifier_Overwrite(nullifierHash) == {nullifierHash}

\* Mutant: line 51 is missing, the nullifier is never marked.
SpendNullifier_Skipped(nullifierHash) == nullifiers

SpendNullifier(nullifierHash) == nullifiers \cup {nullifierHash}

\* Mutant: the whole balance is sent, as emergencyWithdraw does.
TransferAmount_Balance == balance

TransferAmount == DEPOSIT_AMOUNT

Top == stack[Len(stack)]
Pop == SubSeq(stack, 1, Len(stack) - 1)

\* Who can call the Mixer now: any account when no call is waiting, and
\* otherwise any account reached from the code of the callee that holds
\* control; address(0) has no code and calls nothing.
Callable == IF stack = <<>> THEN TRUE ELSE Top.callee # Null

CanCall(c) == c \in Accounts /\ Callable

\* The contract's state as one value.
Store ==
    [nullifiers |-> nullifiers, commitments |-> commitments,
     merkleRoots |-> merkleRoots, paused |-> paused, status |-> status,
     balance |-> balance, deposits |-> deposits, withdrawals |-> withdrawals]

\* The contract's state becomes s; the KYC contract is another contract.
Install(s) ==
    /\ UNCHANGED <<kvars, svars>>
    /\ nullifiers' = s.nullifiers
    /\ commitments' = s.commitments
    /\ merkleRoots' = s.merkleRoots
    /\ paused' = s.paused
    /\ status' = s.status
    /\ balance' = s.balance
    /\ deposits' = s.deposits
    /\ withdrawals' = s.withdrawals

\* What is seen of a call: its error, or OK, or PENDING while its callee
\* runs.
Result(op, e) == [op |-> op, err |-> e]

\* The ether a call hands over with its external call.
Transfer(to, value) == [to |-> to, value |-> value]
NoTransfer == Transfer(Null, 0)

\* What a call does: its error (or OK, or PENDING), the state it leaves and
\* the ether it hands over.  A call that reverts leaves the state it found.
Outcome(e, post, transfer) == [err |-> e, post |-> post, transfer |-> transfer]
Reverted(e) == Outcome(e, Store, NoTransfer)

\* ------------------------------------------------------------ KYC state
MIN_AGE == 18

Keys == 1..MaxKey
AgeHashes == 0..MaxAgeHash
MinAges == {MIN_AGE - 1, MIN_AGE}

ErrOnlyOwner == "Only owner can call this function"
ErrUntrustedIssuer == "UntrustedIssuer"
ErrMinAge == "Minimum age too low"
ErrInvalidProof == "InvalidProof"

\* What is seen of a KYC call or of a proof generation.
KResult(op, e) == [op |-> op, err |-> e]

\* KYCVerifier after its constructor: no issuer is trusted and no user is
\* verified.
KInit ==
    /\ trustedIssuers = {}
    /\ verifiedUsers = {}
    /\ userAgeHashes = [u \in Accounts |-> 0]
    /\ ageVerified = [u \in Accounts |-> 0]
    /\ klast = KResult("constructor", OK)

\* ----------------------------------------------------------------- init
\* The scripts before they are started: nothing run, no exit code, no result,
\* nothing on chain or on disk.
SInit ==
    /\ clog = <<>>
    /\ cexit = <<>>
    /\ tresults = <<>>
    /\ treturned = <<>>
    /\ dlog = <<>>
    /\ dexit = <<>>
    /\ deffects = <<>>
    /\ denv = <<>>

Init ==
    /\ nullifiers = {}
    /\ commitments = {}
    /\ merkleRoots = <<0>>
    /\ paused = FALSE
    /\ status = NOT_ENTERED
    /\ balance = 0
    /\ deposits = [c \in Hash |-> 0]
    /\ withdrawals = [h \in Hash |-> 0]
    /\ stack = <<>>
    /\ last = Result("constructor", OK)
    /\ KInit
    /\ SInit

\* -------------------------------------------------------------- deposit
\* Mutant: only a value below DEPOSIT_AMOUNT is refused.
DepositCheck_AtLeast(commitment, value) ==
    IF paused THEN ErrPaused
    ELSE IF status = ENTERED THEN ErrReentrant
    ELSE IF value < DEPOSIT_AMOUNT THEN ErrAmount
    ELSE IF commitment \in commitments THEN ErrCommitment
    ELSE OK

\* Mutant: line 30 is missing.
DepositCheck_NoDuplicateCheck(commitment, value) ==
    IF paused THEN ErrPaused
    ELSE IF status = ENTERED THEN ErrReentrant
    ELSE IF value # DEPOSIT_AMOUNT THEN ErrAmount
    ELSE OK

\* Mutant: the duplicate check of line 30 runs before the amount check of
\* line 29.
DepositCheck_DuplicateFirst(commitment, value) ==
    IF paused THEN ErrPaused
    ELSE IF status = ENTERED THEN ErrReentrant
    ELSE IF commitment \in commitments THEN ErrCommitment
    ELSE IF value # DEPOSIT_AMOUNT THEN ErrAmount
    ELSE OK

\* Mutant: deposit has no nonReentrant.
DepositCheck_NoGuard(commitment, value) ==
    IF paused THEN ErrPaused
    ELSE IF value # DEPOSIT_AMOUNT THEN ErrAmount
    ELSE IF commitment \in commitments THEN ErrCommitment
    ELSE OK

\* Mutant: deposit has no whenNotPaused.
DepositCheck_NotGated(commitment, value) ==
    IF status = ENTERED THEN ErrReentrant
    ELSE IF value # DEPOSIT_AMOUNT THEN ErrAmount
    ELSE IF commitment \in commitments THEN ErrCommitment
    ELSE OK

\* The modifiers and the two require of deposit, in the order they run.
DepositCheck(commitment, value) ==
    IF paused THEN ErrPaused
    ELSE IF status = ENTERED THEN ErrReentrant
    ELSE IF value # DEPOSIT_AMOUNT THEN ErrAmount
    ELSE IF commitment \in commitments THEN ErrCommitment
    ELSE OK

\* Mutant: line 31 replaces the commitment set by the new commitment.
DepositOutcome_Overwrite(commitment, value) ==
    LET e == DepositCheck(commitment, value)
    IN IF e # OK THEN Reverted(e)
       ELSE Outcome(OK,
                    [Store EXCEPT !.commitments = {commitment},
                                  !.balance = @ + value,
                                  !.deposits[commitment] = @ + 1],
                    NoTransfer)

\* Mutant: line 31 is missing, the commitment is not recorded.
DepositOutcome_NotRecorded(commitment, value) ==
    LET e == DepositCheck(commitment, value)
    IN IF e # OK THEN Reverted(e)
       ELSE Outcome(OK,
                    [Store EXCEPT !.balance = @ + value,
                                  !.deposits[commitment] = @ + 1],
                    NoTransfer)

DepositOutcome(commitment, value) ==
    LET e == DepositCheck(commitment, value)
    IN IF e # OK THEN Reverted(e)
       ELSE Outcome(OK,
                    [Store EXCEPT !.commitments = @ \cup {commitment},
                                  !.balance = @ + value,
                                  !.deposits[commitment] = @ + 1],
                    NoTransfer)

\* deposit; msg.sender is not read.
Deposit(c, commitment, value) ==
    /\ CanCall(c)
    /\ LET o == DepositOutcome(commitment, value)
       IN /\ o.post.balance <= MaxDeposits * DEPOSIT_AMOUNT
          /\ Install(o.post)
          /\ last' = Result("deposit", o.err)
          /\ UNCHANGED stack

\* ------------------------------------------------------------- withdraw
\* The call of the verifier a withdraw made (line 48), if it made one.
VerifierCall(proof, inputs) == [proof |-> proof, inputs |-> inputs]
NoCall == <<>>

\* Mutant: a withdraw is refused unless a commitment equal to its nullifier
\* hash is stored.
WithdrawCheck_ReadsCommitments(proof, root, nullifierHash, recipient) ==
    IF paused THEN [err |-> ErrPaused, call |-> NoCall]
    ELSE IF status = ENTERED THEN [err |-> ErrReentrant, call |-> NoCall]
    ELSE IF recipient = Null THEN [err |-> ErrRecipient, call |-> NoCall]
    ELSE IF nullifierHash \in nullifiers THEN [err |-> ErrNullifier, call |-> NoCall]
    ELSE IF nullifierHash \notin commitments THEN [err |-> ErrNullifier, call |-> NoCall]
    ELSE IF ~isValidRoot(root) THEN [err |-> ErrRoot, call |-> NoCall]
    ELSE LET inputs == PublicInputs(root, nullifierHash, recipient)
         IN IF verifierReverts(proof)
            THEN [err |-> ErrVerifier, call |-> VerifierCall(proof, inputs)]
            ELSE IF ~verifyProof(proof, inputs)
            THEN [err |-> ErrProof, call |-> VerifierCall(proof, inputs)]
            ELSE [err |-> OK, call |-> VerifierCall(proof, inputs)]

\* Mutant: the root is checked before the nullifier.
WithdrawCheck_RootFirst(proof, root, nullifierHash, recipient) ==
    IF paused THEN [err |-> ErrPaused, call |-> NoCall]
    ELSE IF status = ENTERED THEN [err |-> ErrReentrant, call |-> NoCall]
    ELSE IF recipient = Null THEN [err |-> ErrRecipient, call |-> NoCall]
    ELSE IF ~isValidRoot(root) THEN [err |-> ErrRoot, call |-> NoCall]
    ELSE IF nullifierHash \in nullifiers THEN [err |-> ErrNullifier, call |-> NoCall]
    ELSE LET inputs == PublicInputs(root, nullifierHash, recipient)
         IN IF verifierReverts(proof)
            THEN [err |-> ErrVerifier, call |-> VerifierCall(proof, inputs)]
            ELSE IF ~verifyProof(proof, inputs)
            THEN [err |-> ErrProof, call |-> VerifierCall(proof, inputs)]
            ELSE [err |-> OK, call |-> VerifierCall(proof, inputs)]

\* The outcome of the modifiers and of lines 43-49, with the call of the
\* verifier that was made on the way.  Line 48 is a plain external call: a
\* revert of the verifier reverts withdraw with the verifier's error.
WithdrawCheck(proof, root, nullifierHash, recipient) ==
    IF paused THEN [err |-> ErrPaused, call |-> NoCall]
    ELSE IF status = ENTERED THEN [err |-> ErrReentrant, call |-> NoCall]
    ELSE IF recipient = Null THEN [err |-> ErrRecipient, call |-> NoCall]
    ELSE IF nullifierHash \in nullifiers THEN [err |-> ErrNullifier, call |-> NoCall]
    ELSE IF ~isValidRoot(root) THEN [err |-> ErrRoot, call |-> NoCall]
    ELSE LET inputs == PublicInputs(root, nullifierHash, recipient)
         IN IF verifierReverts(proof)
            THEN [err |-> ErrVerifier, call |-> VerifierCall(proof, inputs)]
            ELSE IF ~verifyProof(proof, inputs)
            THEN [err |-> ErrProof, call |-> VerifierCall(proof, inputs)]
            ELSE [err |-> OK, call |-> VerifierCall(proof, inputs)]

\* Whether recipient.call{value: amount}("") returns true: the contract
\* holds the amount and the recipient's code accepts it.
Sent(amount, accepts) == balance >= amount /\ accepts

\* Mutant: a failed transfer does not undo line 51.
WithdrawOutcome_MarkKept(proof, root, nullifierHash, recipient, accepts) ==
    LET chk == WithdrawCheck(proof, root, nullifierHash, recipient)
    IN IF chk.err # OK THEN Reverted(chk.err)
       ELSE IF ~Sent(TransferAmount, accepts)
            THEN Outcome(ErrTransfer,
                         [Store EXCEPT !.nullifiers = SpendNullifier(nullifierHash)],
                         NoTransfer)
       ELSE Outcome(PENDING,
                    [Store EXCEPT !.nullifiers = SpendNullifier(nullifierHash),
                                  !.status = ENTERED,
                                  !.balance = @ - TransferAmount],
                    Transfer(recipient, TransferAmount))

\* withdraw up to and including recipient.call{value: DEPOSIT_AMOUNT}("").
\* When sent is false, require(sent) reverts the call and line 51 with it.
WithdrawOutcome(proof, root, nullifierHash, recipient, accepts) ==
    LET chk == WithdrawCheck(proof, root, nullifierHash, recipient)
    IN IF chk.err # OK THEN Reverted(chk.err)
       ELSE IF ~Sent(TransferAmount, accepts) THEN Reverted(ErrTransfer)
       ELSE Outcome(PENDING,
                    [Store EXCEPT !.nullifiers = SpendNullifier(nullifierHash),
                                  !.status = ENTERED,
                                  !.balance = @ - TransferAmount],
                    Transfer(recipient, TransferAmount))

\* What is seen of a withdraw call: its outcome, the call of the verifier
\* and the transfer it made.
WithdrawResult(e, call, transfer) ==
    [op |-> "withdraw", err |-> e, verifier |-> call, transfer |-> transfer]

\* msg.sender is not read, so the caller is any account that can call.
Withdraw(proof, root, nullifierHash, recipient, accepts) ==
    /\ Callable
    /\ LET o == WithdrawOutcome(proof, root, nullifierHash, recipient, accepts)
           call == WithdrawCheck(proof, root, nullifierHash, recipient).call
       IN /\ o.err = PENDING => Len(stack) < MaxDepth
          /\ Install(o.post)
          /\ stack' = IF o.err = PENDING
                      THEN Append(stack, [fn |-> "withdraw", callee |-> recipient,
                                          nullifierHash |-> nullifierHash])
                      ELSE stack
          /\ last' = WithdrawResult(o.err, call, o.transfer)

\* The recipient returned successfully: withdraw passes require(sent), emits
\* Withdrawal and leaves the reentrancy guard.
WithdrawReturn ==
    /\ stack # <<>>
    /\ Top.fn = "withdraw"
    /\ withdrawals' = [withdrawals EXCEPT ![Top.nullifierHash] = @ + 1]
    /\ status' = NOT_ENTERED
    /\ stack' = Pop
    /\ last' = WithdrawResult(OK, NoCall, NoTransfer)
    /\ UNCHANGED <<nullifiers, commitments, merkleRoots, paused, balance,
                   deposits>>
    /\ UNCHANGED <<kvars, svars>>

\* ------------------------------------------------------- administration
\* Mutant: addMerkleRoot has whenNotPaused.
AddMerkleRootOutcome_Gated(c, newRoot) ==
    IF c # Owner THEN Reverted(ErrNotOwner)
    ELSE IF paused THEN Reverted(ErrPaused)
    ELSE Outcome(OK, [Store EXCEPT !.merkleRoots = Append(@, newRoot)], NoTransfer)

\* Mutant: a root that is already in the history is refused.
AddMerkleRootOutcome_NoDuplicates(c, newRoot) ==
    IF c # Owner THEN Reverted(ErrNotOwner)
    ELSE IF isValidRoot(newRoot) THEN Reverted(ErrRoot)
    ELSE Outcome(OK, [Store EXCEPT !.merkleRoots = Append(@, newRoot)], NoTransfer)

\* Mutant: the history keeps the newest root only.
AddMerkleRootOutcome_Evicting(c, newRoot) ==
    IF c # Owner THEN Reverted(ErrNotOwner)
    ELSE Outcome(OK, [Store EXCEPT !.merkleRoots = <<newRoot>>], NoTransfer)

AddMerkleRootOutcome(c, newRoot) ==
    IF c # Owner THEN Reverted(ErrNotOwner)
    ELSE Outcome(OK, [Store EXCEPT !.merkleRoots = Append(@, newRoot)], NoTransfer)

AddMerkleRoot(c, newRoot) ==
    /\ CanCall(c)
    /\ LET o == AddMerkleRootOutcome(c, newRoot)
       IN /\ Len(o.post.merkleRoots) <= MaxRoots
          /\ Install(o.post)
          /\ last' = Result("addMerkleRoot", o.err)
          /\ UNCHANGED stack

PauseOutcome(c) ==
    IF c # Owner THEN Reverted(ErrNotOwner)
    ELSE IF paused THEN Reverted(ErrPaused)
    ELSE Outcome(OK, [Store EXCEPT !.paused = TRUE], NoTransfer)

Pause(c) ==
    /\ CanCall(c)
    /\ Install(PauseOutcome(c).post)
    /\ last' = Result("pause", PauseOutcome(c).err)
    /\ UNCHANGED stack

UnpauseOutcome(c) ==
    IF c # Owner THEN Reverted(ErrNotOwner)
    ELSE IF ~paused THEN Reverted(ErrNotPaused)
    ELSE Outcome(OK, [Store EXCEPT !.paused = FALSE], NoTransfer)

Unpause(c) ==
    /\ CanCall(c)
    /\ Install(UnpauseOutcome(c).post)
    /\ last' = Result("unpause", UnpauseOutcome(c).err)
    /\ UNCHANGED stack

\* Mutant: emergencyWithdraw sends one deposit's worth, when it is held.
EmergencyWithdrawOutcome_OneDeposit(c, to, accepts) ==
    IF c # Owner THEN Reverted(ErrNotOwner)
    ELSE IF ~(to = Null \/ accepts) THEN Reverted(ErrEmergency)
    ELSE IF balance < DEPOSIT_AMOUNT
    THEN Outcome(PENDING, Store, Transfer(to, 0))
    ELSE Outcome(PENDING, [Store EXCEPT !.balance = @ - DEPOSIT_AMOUNT],
                 Transfer(to, DEPOSIT_AMOUNT))

\* Mutant: emergencyWithdraw has no onlyOwner.
EmergencyWithdrawOutcome_Open(c, to, accepts) ==
    IF ~(to = Null \/ accepts) THEN Reverted(ErrEmergency)
    ELSE Outcome(PENDING, [Store EXCEPT !.balance = 0], Transfer(to, balance))

\* emergencyWithdraw up to and including to.call{value: address(this).balance}("").
\* address(0) has no code and accepts whatever it is sent.
EmergencyWithdrawOutcome(c, to, accepts) ==
    IF c # Owner THEN Reverted(ErrNotOwner)
    ELSE IF ~(to = Null \/ accepts) THEN Reverted(ErrEmergency)
    ELSE Outcome(PENDING, [Store EXCEPT !.balance = 0], Transfer(to, balance))

\* What is seen of an emergencyWithdraw call: its outcome and its transfer.
EmergencyResult(e, transfer) ==
    [op |-> "emergencyWithdraw", err |-> e, transfer |-> transfer]

EmergencyWithdraw(c, to, accepts) ==
    /\ CanCall(c)
    /\ LET o == EmergencyWithdrawOutcome(c, to, accepts)
       IN /\ o.err = PENDING => Len(stack) < MaxDepth
          /\ Install(o.post)
          /\ stack' = IF o.err = PENDING
                      THEN Append(stack, [fn |-> "emergencyWithdraw", callee |-> to])
                      ELSE stack
          /\ last' = EmergencyResult(o.err, o.transfer)

\* `to` returned successfully: emergencyWithdraw passes require(sent).
EmergencyWithdrawReturn ==
    /\ stack # <<>>
    /\ Top.fn = "emergencyWithdraw"
    /\ stack' = Pop
    /\ last' = EmergencyResult(OK, NoTransfer)
    /\ UNCHANGED store
    /\ UNCHANGED <<kvars, svars>>

\* ----------------------------------------------------------------- next
Next ==
    \/ \E c \in Accounts, cm \in Hash, v \in Values : Deposit(c, cm, v)
    \/ \E r \in Hash, h \in Hash, a \in Addr, acc \in BOOLEAN :
          \E p \in ProofsFor(r, h) : Withdraw(p, r, h, a, acc)
    \/ WithdrawReturn
    \/ \E c \in Accounts, r \in Hash : AddMerkleRoot(c, r)
    \/ \E c \in Accounts : Pause(c)
    \/ \E c \in Accounts : Unpause(c)
    \/ \E c \in Accounts, a \in Addr, acc \in BOOLEAN : EmergencyWithdraw(c, a, acc)
    \/ EmergencyWithdrawReturn

Spec == Init /\ [][Next]_vars

\* The executions in which emergencyWithdraw is never called: every
\* operation of the contract but that one.
NextNoEmergency ==
    \/ \E c \in Accounts, cm \in Hash, v \in Values : Deposit(c, cm, v)
    \/ \E r \in Hash, h \in Hash, a \in Addr, acc \in BOOLEAN :
          \E p \in ProofsFor(r, h) : Withdraw(p, r, h, a, acc)
    \/ WithdrawReturn
    \/ \E c \in Accounts, r \in Hash : AddMerkleRoot(c, r)
    \/ \E c \in Accounts : Pause(c)
    \/ \E c \in Accounts : Unpause(c)

NoEmergencySpec == Init /\ [][NextNoEmergency]_vars

\* ================================================= zk-kyc-age-verification
\* ----------------------------------------------------------- KYC verifier
\* A KYC proof is KBadProof (for no statement at all) or the public inputs
\* (ageHash, issuerPublicKey, minAge) of the statement it was generated for.
KBadProof == <<>>
KProofs == {KBadProof} \cup (AgeHashes \X Keys \X MinAges)

kycVerifyProof(proof, inputs) == proof # KBadProof /\ proof = inputs

KPublicInputs(ageHash, issuerPublicKey, minAge) == <<ageHash, issuerPublicKey, minAge>>

\* ------------------------------------------------------------- KYCVerifier
\* The KYCVerifier contract's state as one value.
KStore ==
    [trustedIssuers |-> trustedIssuers, verifiedUsers |-> verifiedUsers,
     userAgeHashes |-> userAgeHashes, ageVerified |-> ageVerified]

\* The KYCVerifier contract's state becomes s; the Mixer is another contract.
KInstall(s) ==
    /\ trustedIssuers' = s.trustedIssuers
    /\ verifiedUsers' = s.verifiedUsers
    /\ userAgeHashes' = s.userAgeHashes
    /\ ageVerified' = s.ageVerified
    /\ UNCHANGED <<vars, svars>>

KOutcome(e, post) == [err |-> e, post |-> post]

\* Views.
isTrustedIssuer(publicKey) == publicKey \in trustedIssuers
isUserVerified(user) == user \in verifiedUsers
getUserAgeHash(user) == userAgeHashes[user]

\* Mutant: addTrustedIssuer without the owner check.
AddTrustedIssuerOutcome_AnyCaller(c, publicKey) ==
    KOutcome(OK, [KStore EXCEPT !.trustedIssuers = @ \cup {publicKey}])

AddTrustedIssuerOutcome(c, publicKey) ==
    IF c # Owner THEN KOutcome(ErrOnlyOwner, KStore)
    ELSE KOutcome(OK, [KStore EXCEPT !.trustedIssuers = @ \cup {publicKey}])

AddTrustedIssuer(c, publicKey) ==
    /\ c \in Accounts
    /\ KInstall(AddTrustedIssuerOutcome(c, publicKey).post)
    /\ klast' = KResult("addTrustedIssuer", AddTrustedIssuerOutcome(c, publicKey).err)

RemoveTrustedIssuerOutcome(c, publicKey) ==
    IF c # Owner THEN KOutcome(ErrOnlyOwner, KStore)
    ELSE KOutcome(OK, [KStore EXCEPT !.trustedIssuers = @ \ {publicKey}])

RemoveTrustedIssuer(c, publicKey) ==
    /\ c \in Accounts
    /\ KInstall(RemoveTrustedIssuerOutcome(c, publicKey).post)
    /\ klast' = KResult("removeTrustedIssuer", RemoveTrustedIssuerOutcome(c, publicKey).err)

\* Mutant: verifyAgeProof without the check of the minimum age.
AgeProofCheck_NoMinAge(s, proof, ageHash, issuerPublicKey, minAge) ==
    IF issuerPublicKey \notin s.trustedIssuers THEN ErrUntrustedIssuer
    ELSE IF ~kycVerifyProof(proof, KPublicInputs(ageHash, issuerPublicKey, minAge))
         THEN ErrInvalidProof
    ELSE OK

\* The checks of one age proof against the contract state s.
AgeProofCheck(s, proof, ageHash, issuerPublicKey, minAge) ==
    IF issuerPublicKey \notin s.trustedIssuers THEN ErrUntrustedIssuer
    ELSE IF minAge < MIN_AGE THEN ErrMinAge
    ELSE IF ~kycVerifyProof(proof, KPublicInputs(ageHash, issuerPublicKey, minAge))
         THEN ErrInvalidProof
    ELSE OK

\* The state s with user marked verified with ageHash, and the AgeVerified
\* event counted.
MarkVerified(s, user, ageHash) ==
    [s EXCEPT !.verifiedUsers = @ \cup {user},
              !.userAgeHashes[user] = ageHash,
              !.ageVerified[user] = @ + 1]

\* Mutant: replay protection: a user already verified is refused.
VerifyAgeProofOn_NoReplay(s, c, proof, ageHash, issuerPublicKey, minAge) ==
    LET e == AgeProofCheck(s, proof, ageHash, issuerPublicKey, minAge)
    IN IF e # OK THEN KOutcome(e, s)
       ELSE IF c \in s.verifiedUsers THEN KOutcome(ErrInvalidProof, s)
       ELSE KOutcome(OK, MarkVerified(s, c, ageHash))

\* verifyAgeProof called by user c on the contract state s.
VerifyAgeProofOn(s, c, proof, ageHash, issuerPublicKey, minAge) ==
    LET e == AgeProofCheck(s, proof, ageHash, issuerPublicKey, minAge)
    IN IF e # OK THEN KOutcome(e, s)
       ELSE KOutcome(OK, MarkVerified(s, c, ageHash))

VerifyAgeProofOutcome(c, proof, ageHash, issuerPublicKey, minAge) ==
    VerifyAgeProofOn(KStore, c, proof, ageHash, issuerPublicKey, minAge)

VerifyAgeProof(c, proof, ageHash, issuerPublicKey, minAge) ==
    /\ c \in Accounts
    /\ LET o == VerifyAgeProofOutcome(c, proof, ageHash, issuerPublicKey, minAge)
       IN /\ o.post.ageVerified[c] <= MaxEvents
          /\ KInstall(o.post)
          /\ klast' = KResult("verifyAgeProof", o.err)

\* One request of a batch: a proof, its public inputs and the user it is
\* for.
BatchRequest(proof, ageHash, issuerPublicKey, minAge, user) ==
    [proof |-> proof, ageHash |-> ageHash, issuerPublicKey |-> issuerPublicKey,
     minAge |-> minAge, user |-> user]

\* Mutant: the batch stops at the first request that fails; the requests
\* after it are not handled.
RECURSIVE BatchOn_StopAtFailure(_, _)
BatchOn_StopAtFailure(s, reqs) ==
    IF reqs = <<>> THEN [post |-> s, results |-> <<>>]
    ELSE LET r == Head(reqs)
             e == AgeProofCheck(s, r.proof, r.ageHash, r.issuerPublicKey, r.minAge)
         IN IF e # OK
            THEN [post |-> s, results |-> [i \in 1..Len(reqs) |-> FALSE]]
            ELSE LET rest == BatchOn_StopAtFailure(MarkVerified(s, r.user, r.ageHash),
                                                   Tail(reqs))
                 IN [post |-> rest.post, results |-> <<TRUE>> \o rest.results]

\* batchVerifyAgeProofs on the contract state s: the requests are handled in
\* order, a request that passes the checks marks its user verified, one that
\* does not yields false and is skipped.
RECURSIVE BatchOn(_, _)
BatchOn(s, reqs) ==
    IF reqs = <<>> THEN [post |-> s, results |-> <<>>]
    ELSE LET r == Head(reqs)
             e == AgeProofCheck(s, r.proof, r.ageHash, r.issuerPublicKey, r.minAge)
             s1 == IF e = OK THEN MarkVerified(s, r.user, r.ageHash) ELSE s
             rest == BatchOn(s1, Tail(reqs))
         IN [post |-> rest.post, results |-> <<e = OK>> \o rest.results]

BatchOutcome(reqs) == BatchOn(KStore, reqs)

\* The requests tried in batches: for an issuer key and a user, with the
\* age hash MaxAgeHash and minAge = MIN_AGE, a bad proof or the proof
\* generated for these inputs.
BatchRequests ==
    UNION {{BatchRequest(p, MaxAgeHash, k, MIN_AGE, u) :
               p \in {KBadProof, <<MaxAgeHash, k, MIN_AGE>>}} :
              k \in Keys, u \in Accounts}

Batches == UNION {[1..n -> BatchRequests] : n \in 0..MaxBatch}

\* The caller is not among what decides a request.
BatchVerifyAgeProofs(reqs) ==
    /\ LET o == BatchOutcome(reqs)
       IN /\ \A u \in Accounts : o.post.ageVerified[u] <= MaxEvents
          /\ KInstall(o.post)
          /\ klast' = [op |-> "batchVerifyAgeProofs", err |-> OK,
                       results |-> o.results]

\* ------------------------------------------------------ the KYC circuit
\* Ages given to the circuit: one below the minimum age, and the minimum.
Ages == {MIN_AGE - 1, MIN_AGE}

\* Issuer private keys given to the circuit.
PrivateKeys == 1..MaxKey

\* Poseidon hash of a sequence of field elements: a collision-free hash is
\* the sequence itself under a tag.
Poseidon(inputs) == <<"Poseidon", inputs>>

\* circomlib Num2Bits(n): satisfiable exactly when the input fits n bits.
FitsBits(n, x) == x >= 0 /\ x < 2 ^ n

\* Width of the age comparator.
AgeBits == 8

\* circomlib GreaterEqualThan(n) is LessThan(n) on (b, a + 1), which splits
\* b + 2^n - (a + 1) into n + 1 bits and returns 1 - the top bit.
GreaterEqualThan(n, a, b) ==
    LET x == b + 2 ^ n - (a + 1)
    IN [sat |-> FitsBits(n + 1, x), out |-> 1 - ((x \div 2 ^ n) % 2)]

\* The inputs of one proof generation.
CircuitInputs(age, signature, issuerPrivateKey, ageHash, issuerPublicKey, minAge) ==
    [age |-> age, signature |-> signature, issuerPrivateKey |-> issuerPrivateKey,
     ageHash |-> ageHash, issuerPublicKey |-> issuerPublicKey, minAge |-> minAge]

\* The inputs generate-proof and the tests build for an age: a credential
\* of that age, signed by the issuer with private key sk.
generateCircuitInputs(age, sk, minAge) ==
    CircuitInputs(age, Poseidon(<<age, sk>>), sk,
                  Poseidon(<<age>>), Poseidon(<<sk>>), minAge)

ErrConstraint == "Error: Assert Failed"

\* template KYCAgeVerification: whether the constraints have a witness for
\* these inputs, and the output signal of that witness. The constraints
\* are the three equalities on hashes and those inside the comparator; the
\* output is the comparator's output, which nothing constrains to be 1.
KYCAgeVerification(in) ==
    LET ageComparator == GreaterEqualThan(AgeBits, in.age, in.minAge)
    IN [sat |-> /\ in.ageHash = Poseidon(<<in.age>>)
                /\ ageComparator.sat
                /\ in.signature = Poseidon(<<in.age, in.issuerPrivateKey>>)
                /\ in.issuerPublicKey = Poseidon(<<in.issuerPrivateKey>>),
        valid |-> ageComparator.out]

\* snarkjs.groth16.fullProve: the witness is computed from the inputs and
\* the proof is made from it; it throws when a constraint does not hold.
FullProveOutcome(in) ==
    LET w == KYCAgeVerification(in)
    IN IF w.sat THEN [err |-> OK, valid |-> w.valid]
                ELSE [err |-> ErrConstraint, valid |-> 0]

FullProve(in) ==
    LET o == FullProveOutcome(in)
    IN /\ klast' = [op |-> "fullProve", err |-> o.err, valid |-> o.valid,
                    age |-> in.age, minAge |-> in.minAge]
       /\ UNCHANGED <<trustedIssuers, verifiedUsers, userAgeHashes, ageVerified>>
       /\ UNCHANGED <<vars, svars>>

\* The inputs drawn: any age, any signature, hash and keys of the domain.
AllCircuitInputs ==
    {CircuitInputs(a, Poseidon(<<sa, sk>>), k, Poseidon(<<ha>>), Poseidon(<<pk>>), m) :
        a \in Ages, sa \in Ages, sk \in PrivateKeys, k \in PrivateKeys,
        ha \in Ages, pk \in PrivateKeys, m \in MinAges}

\* --------------------------------------------------------------- KYC next
KNext ==
    \/ \E c \in Accounts, k \in Keys : AddTrustedIssuer(c, k)
    \/ \E c \in Accounts, k \in Keys : RemoveTrustedIssuer(c, k)
    \/ \E c \in Accounts, p \in KProofs, h \in AgeHashes, k \in Keys, m \in MinAges :
          VerifyAgeProof(c, p, h, k, m)
    \/ \E reqs \in Batches : BatchVerifyAgeProofs(reqs)
    \/ \E in \in AllCircuitInputs : FullProve(in)

KYCSpec == Init /\ [][KNext]_allvars

\* ------------------------------------------------------- KYC properties
\* The request would pass verifyAgeProof's checks in the current state.
RequestValid(r) ==
    AgeProofCheck(KStore, r.proof, r.ageHash, r.issuerPublicKey, r.minAge) = OK

\* The positions of the batch whose request is valid and is for user u.
ValidFor(reqs, u) == {i \in DOMAIN reqs : RequestValid(reqs[i]) /\ reqs[i].user = u}

Max(S) == CHOOSE i \in S : \A j \in S : j <= i

\* C21: a batch of N requests returns N flags in request order; the flag of
\* a request is true exactly when that request is valid by itself (trusted
\* issuer, verifying proof), whatever the other requests of the batch are;
\* every valid request takes effect (its user is verified, with the age
\* hash of the user's last valid request) although others fail, and a user
\* with no valid request is left as it was.
C21_BatchPerRequest ==
    \A reqs \in Batches :
       LET o == BatchOutcome(reqs)
       IN /\ Len(o.results) = Len(reqs)
          /\ \A i \in DOMAIN reqs : o.results[i] = RequestValid(reqs[i])
          /\ o.post.trustedIssuers = trustedIssuers
          /\ \A u \in Accounts :
                IF ValidFor(reqs, u) = {}
                THEN /\ (u \in o.post.verifiedUsers) = (u \in verifiedUsers)
                     /\ o.post.userAgeHashes[u] = userAgeHashes[u]
                ELSE /\ u \in o.post.verifiedUsers
                     /\ o.post.userAgeHashes[u] = reqs[Max(ValidFor(reqs, u))].ageHash

\* The batch just made had three requests, the second failed and the first
\* and third succeeded for two users, who are both verified.
C21_Witness ==
    /\ klast.op = "batchVerifyAgeProofs"
    /\ klast.results = <<TRUE, FALSE, TRUE>>
    /\ verifiedUsers = Accounts
    /\ \A u \in Accounts : ageVerified[u] = 1

\* ------------------------------------------------------------ properties
\* The withdraw calls for nullifierHash h that made their transfer and wait
\* for the recipient to return.
PendingWithdrawals(h) ==
    Cardinality({i \in DOMAIN stack :
                    stack[i].fn = "withdraw" /\ stack[i].nullifierHash = h})

Succeeded == {OK, PENDING}

\* C1: no nullifierHash is the subject of more than one successful withdraw,
\* counting the withdrawals that completed (one Withdrawal event each) and
\* those that made their transfer and wait for the recipient to return,
\* whatever calls are made in between and from the recipients' code.
C1_AtMostOneWithdrawal ==
    \A h \in Hash : withdrawals[h] + PendingWithdrawals(h) <= 1

\* A withdrawal of h completed and a further withdraw was refused for a
\* spent nullifier.
C1_Witness ==
    /\ \E h \in Hash : withdrawals[h] = 1
    /\ last.op = "withdraw"
    /\ last.err = ErrNullifier

\* Every withdraw call there is: its proof, root, nullifierHash and
\* recipient, and whether the recipient's code accepts ether.
WithdrawArgs == Proofs \X Hash \X Hash \X Addr \X BOOLEAN

OutcomeOf(x) == WithdrawOutcome(x[1], x[2], x[3], x[4], x[5])

\* The call is refused: it reverts, so that it changes nothing and sends
\* nothing.
Refused(o) ==
    /\ o.err \notin Succeeded
    /\ o.post = Store
    /\ o.transfer = NoTransfer

\* The call gets past both modifiers of deposit and withdraw.
Admitted == ~paused /\ status = NOT_ENTERED

\* The root is in the root history.
Recorded(root) == \E i \in DOMAIN merkleRoots : merkleRoots[i] = root

\* C2 as claimed: once a withdraw of h has succeeded, every later withdraw
\* that carries h fails with 'Nullifier used', whatever its proof, root and
\* recipient.
C2_Original ==
    [][\A x \in WithdrawArgs :
         (withdrawals[x[3]] >= 1 /\ Withdraw(x[1], x[2], x[3], x[4], x[5]))
            => last'.err = ErrNullifier]_vars

\* C2 as amended: once a withdraw of h has succeeded, every later withdraw
\* that carries h fails and changes nothing, whatever its proof and root; it
\* fails with 'Nullifier used' whenever it gets as far as the nullifier
\* check: the system is not paused, no deposit or withdraw is executing and
\* the recipient is not address(0).
C2_SpentNullifierRefused ==
    \A x \in WithdrawArgs :
       withdrawals[x[3]] >= 1 =>
          /\ Refused(OutcomeOf(x))
          /\ (Admitted /\ x[4] # Null) => OutcomeOf(x).err = ErrNullifier

\* Every spent nullifier has had its withdrawal, no call is executing, and
\* the withdraw just made was refused for its nullifier before the verifier
\* was called.
C2_Witness ==
    /\ stack = <<>>
    /\ nullifiers # {}
    /\ \A h \in nullifiers : withdrawals[h] = 1
    /\ last = WithdrawResult(ErrNullifier, NoCall, NoTransfer)

\* C3: the nullifier registry only grows: a nullifier that is spent in a
\* state is spent in every later state, whichever call is made (withdraw,
\* deposit, addMerkleRoot, pause, unpause, emergencyWithdraw) and whether it
\* succeeds or fails.
C3_NullifiersMonotonic == [][nullifiers \subseteq nullifiers']_vars

\* An emergencyWithdraw completed while a nullifier is spent.
C3_Witness ==
    /\ nullifiers # {}
    /\ last = EmergencyResult(OK, NoTransfer)

\* C4: while a withdraw waits for the recipient of its transfer, its
\* nullifier is already spent and the guard is held, and every withdraw of
\* the same nullifier made in the meantime is refused; when the recipient
\* has returned, withdraw changes no registry and moves no ether any more.
C4_WaitingIsSpent ==
    /\ \A i \in DOMAIN stack :
          stack[i].fn = "withdraw" => stack[i].nullifierHash \in nullifiers
    /\ (\E i \in DOMAIN stack : stack[i].fn = "withdraw") <=> status = ENTERED
    /\ \A x \in WithdrawArgs :
          PendingWithdrawals(x[3]) >= 1 => Refused(OutcomeOf(x))

C4_EffectsBeforeTransfer ==
    /\ []C4_WaitingIsSpent
    /\ [][WithdrawReturn =>
            UNCHANGED <<nullifiers, commitments, merkleRoots, paused, balance>>]_vars

\* A withdraw waits for its recipient, and a withdraw made from the
\* recipient's code was refused by the reentrancy guard.
C4_Witness ==
    /\ stack # <<>>
    /\ Top.fn = "withdraw"
    /\ last.op = "withdraw"
    /\ last.err = ErrReentrant

\* The call gets as far as the verifier: it passes the modifiers and the
\* three require of lines 43-45.
ReachesVerifier(x) ==
    Admitted /\ x[4] # Null /\ x[3] \notin nullifiers /\ Recorded(x[2])

C6_NoDuplicateCommitment ==
    /\ \A cm \in Hash : deposits[cm] <= 1
    /\ \A cm \in commitments, v \in Values :
          /\ Refused(DepositOutcome(cm, v))
          /\ (Admitted /\ v = DEPOSIT_AMOUNT)
                => DepositOutcome(cm, v).err = ErrCommitment

\* A commitment is stored and the deposit just made was refused because its
\* commitment exists.
C6_Witness ==
    /\ \E cm \in commitments : deposits[cm] = 1
    /\ last = Result("deposit", ErrCommitment)

\* C7: a withdraw with a root that is not in the root history is refused, so
\* that it marks no nullifier and transfers nothing, whatever its proof (also
\* one generated for exactly its root, nullifierHash and recipient); it fails
\* with 'Invalid root' when it gets as far as the root check.
C7_UnknownRootRefused ==
    \A x \in WithdrawArgs :
       ~Recorded(x[2]) =>
          /\ Refused(OutcomeOf(x))
          /\ (Admitted /\ x[4] # Null /\ x[3] \notin nullifiers)
                => OutcomeOf(x).err = ErrRoot

\* Funds are held, some root was never recorded, and the withdraw just made
\* was refused for its root before the verifier was called.
C7_Witness ==
    /\ balance >= DEPOSIT_AMOUNT
    /\ \E r \in Hash : ~Recorded(r)
    /\ last = WithdrawResult(ErrRoot, NoCall, NoTransfer)

\* The proof verifies against the public inputs (root, nullifierHash,
\* recipient) of the call.
Verifies(x) == verifyProof(x[1], <<x[2], x[3], x[4]>>)

\* C8: a withdraw that passes the modifiers fails with the error of the
\* first check it violates in the order recipient, nullifier, root, proof,
\* whatever later checks it violates as well (the proof check is violated
\* when the verifier answers false); and no withdraw calls the verifier
\* unless its recipient is not the null address, its nullifier is unspent
\* and its root is recorded.
C8_CheckOrder ==
    \A x \in WithdrawArgs :
       LET o == OutcomeOf(x)
           call == WithdrawCheck(x[1], x[2], x[3], x[4]).call
       IN /\ Admitted =>
               /\ x[4] = Null => o.err = ErrRecipient
               /\ (x[4] # Null /\ x[3] \in nullifiers) => o.err = ErrNullifier
               /\ (x[4] # Null /\ x[3] \notin nullifiers /\ ~Recorded(x[2]))
                     => o.err = ErrRoot
               /\ (x[4] # Null /\ x[3] \notin nullifiers /\ Recorded(x[2])
                      /\ ~verifierReverts(x[1]) /\ ~Verifies(x))
                     => o.err = ErrProof
          /\ call # NoCall =>
               /\ x[4] # Null /\ x[3] \notin nullifiers /\ Recorded(x[2])
               /\ call = VerifierCall(x[1], <<x[2], x[3], x[4]>>)

\* Every nullifier is spent and some root is unrecorded, so that a withdraw
\* to the null address violates several checks; the withdraw just made was
\* refused for its recipient, without a call of the verifier.
C8_Witness ==
    /\ Admitted
    /\ nullifiers = Hash
    /\ \E r \in Hash : ~Recorded(r)
    /\ last = WithdrawResult(ErrRecipient, NoCall, NoTransfer)

\* The preconditions C9 lists: not paused, recipient not null and accepting
\* funds, nullifier unspent, root recorded, proof verifying, custody holding
\* the fixed amount.
C9_Listed(x) ==
    /\ ~paused
    /\ x[4] # Null
    /\ x[5]
    /\ x[3] \notin nullifiers
    /\ Recorded(x[2])
    /\ Verifies(x)
    /\ balance >= DEPOSIT_AMOUNT

\* C9 as claimed: a withdraw made when the listed preconditions hold
\* succeeds.
C9_Original ==
    [][\A x \in WithdrawArgs :
         (C9_Listed(x) /\ Withdraw(x[1], x[2], x[3], x[4], x[5]))
            => last'.err \in Succeeded]_vars

\* C9 as amended: when the listed preconditions hold and no deposit or
\* withdraw is executing (the call is not re-entrant), withdraw succeeds and
\* does exactly this: it marks nullifierHash spent, takes DEPOSIT_AMOUNT out
\* of custody and hands exactly DEPOSIT_AMOUNT to the recipient.  Every other
\* withdraw is refused: it marks no nullifier and moves no funds.
C9_WithdrawEffects ==
    \A x \in WithdrawArgs :
       LET o == OutcomeOf(x)
       IN IF C9_Listed(x) /\ status = NOT_ENTERED
          THEN /\ o.err = PENDING
               /\ o.post = [Store EXCEPT !.nullifiers = @ \cup {x[3]},
                                         !.balance = @ - DEPOSIT_AMOUNT,
                                         !.status = ENTERED]
               /\ o.transfer = Transfer(x[4], DEPOSIT_AMOUNT)
          ELSE Refused(o)

\* A withdraw has handed DEPOSIT_AMOUNT to its recipient out of a custody
\* that held more, and has marked its nullifier.
C9_Witness ==
    /\ Len(stack) = 1
    /\ Top.fn = "withdraw"
    /\ last.op = "withdraw"
    /\ last.err = PENDING
    /\ last.transfer = Transfer(Top.callee, DEPOSIT_AMOUNT)
    /\ Top.callee \in Accounts
    /\ nullifiers = {Top.nullifierHash}
    /\ balance = DEPOSIT_AMOUNT

\* C10: a deposit whose value is not DEPOSIT_AMOUNT (smaller, zero or
\* larger) is refused and changes neither the commitment set nor the
\* balance; it fails with 'Incorrect deposit amount' when it passes the
\* modifiers, whether or not its commitment is stored.
C10_WrongAmountRefused ==
    \A cm \in Hash, v \in Values \ {DEPOSIT_AMOUNT} :
       /\ Refused(DepositOutcome(cm, v))
       /\ Admitted => DepositOutcome(cm, v).err = ErrAmount

\* Funds and a commitment are held and the deposit just made was refused
\* for its amount.
C10_Witness ==
    /\ commitments # {}
    /\ balance >= DEPOSIT_AMOUNT
    /\ 0 \in Values /\ DEPOSIT_AMOUNT - 1 \in Values /\ DEPOSIT_AMOUNT + 1 \in Values
    /\ last = Result("deposit", ErrAmount)

\* C11: a deposit that is made when the system is not paused, no deposit or
\* withdraw is executing, the value is DEPOSIT_AMOUNT and the commitment is
\* not stored succeeds; and a deposit that succeeds was made so, stores its
\* commitment, adds exactly DEPOSIT_AMOUNT to the balance and changes
\* nothing else of the contract.
C11_DepositEffects ==
    \A cm \in Hash, v \in Values :
       LET o == DepositOutcome(cm, v)
       IN /\ (Admitted /\ v = DEPOSIT_AMOUNT /\ cm \notin commitments)
                => o.err = OK
          /\ o.err = OK =>
                /\ ~paused /\ v = DEPOSIT_AMOUNT /\ cm \notin commitments
                /\ cm \in o.post.commitments
                /\ o.post.commitments = commitments \cup {cm}
                /\ o.post.balance = balance + DEPOSIT_AMOUNT
                /\ o.post.nullifiers = nullifiers
                /\ o.post.merkleRoots = merkleRoots
                /\ o.post.paused = paused
                /\ o.transfer = NoTransfer

\* The deposit just made succeeded, and with it the contract holds two
\* commitments and two deposits' worth.
C11_Witness ==
    /\ last = Result("deposit", OK)
    /\ Cardinality(commitments) = 2
    /\ balance = 2 * DEPOSIT_AMOUNT

\* C12 as claimed: a successful deposit records a new root in the root
\* history as part of the same call.
C12_DepositRecordsRoot ==
    [][(last'.op = "deposit" /\ last'.err = OK)
          => /\ Len(merkleRoots') = Len(merkleRoots) + 1
             /\ isValidRoot(getCurrentRoot)']_vars

\* C13 as claimed: the root history is changed only by a successful deposit
\* (it gets the root of the commitments deposited so far), so that it never
\* holds more roots than there are prefixes of the sequence of deposits, and
\* no call sets a root directly.
C13_RootsOnlyByDeposit ==
    [][merkleRoots' # merkleRoots
          => /\ last'.op = "deposit" /\ last'.err = OK
             /\ Len(merkleRoots') <= 1 + Cardinality(commitments')]_vars

\* C14 as claimed: the current root is a function of the sequence of
\* successful deposits, so that a step that leaves that sequence as it is
\* leaves the current root as it is (two instances with the same deposits
\* never differ in their current root).
C14_RootFunctionOfDeposits ==
    [][deposits' = deposits => getCurrentRoot' = getCurrentRoot]_vars

\* C15: a deposit or withdraw that fails, with whatever error, leaves the
\* commitment set, the nullifier set, the root history and the balance as
\* they were before the call, and hands over no ether.
C15_FailedCallChangesNothing ==
    [][(last'.op \in {"deposit", "withdraw"} /\ last'.err \notin Succeeded)
          => /\ UNCHANGED <<commitments, nullifiers, merkleRoots, balance>>
             /\ last'.op = "withdraw" => last'.transfer = NoTransfer]_vars

\* A withdraw that passed every check and had marked its nullifier failed
\* at its transfer, while the contract holds funds, commitments and a spent
\* nullifier.
C15_Witness ==
    /\ last.op = "withdraw"
    /\ last.err = ErrTransfer
    /\ last.verifier # NoCall
    /\ last.verifier.inputs[2] \notin nullifiers
    /\ balance >= DEPOSIT_AMOUNT
    /\ commitments # {}
    /\ nullifiers # {}

\* C16: while the system is paused every deposit and every withdraw fails
\* with 'Pausable: paused', whatever its arguments and also when another
\* check would fail as well, and changes nothing; pause and unpause change
\* nothing but the pause flag, and while the system is not paused no
\* deposit or withdraw fails with that error, so that after unpause both
\* do what they did before the pause.
C16_PausedRefusesAll ==
    /\ paused =>
          /\ \A cm \in Hash, v \in Values :
                DepositOutcome(cm, v) = Reverted(ErrPaused)
          /\ \A x \in WithdrawArgs : OutcomeOf(x) = Reverted(ErrPaused)
    /\ ~paused =>
          /\ \A cm \in Hash, v \in Values : DepositOutcome(cm, v).err # ErrPaused
          /\ \A x \in WithdrawArgs : OutcomeOf(x).err # ErrPaused
          /\ PauseOutcome(Owner).post = [Store EXCEPT !.paused = TRUE]
    /\ paused => UnpauseOutcome(Owner).post = [Store EXCEPT !.paused = FALSE]

\* The system is paused while a withdraw waits for its recipient, funds are
\* held, and the withdraw just made was refused for the pause, not for
\* re-entering.
C16_Witness ==
    /\ paused
    /\ status = ENTERED
    /\ balance >= DEPOSIT_AMOUNT
    /\ last = WithdrawResult(ErrPaused, NoCall, NoTransfer)

\* C17: no step removes or replaces an entry of the root history, so a root
\* that is valid stays valid after every deposit, withdraw, root addition
\* and administrative call.
C17_ValidRootStaysValid ==
    [][/\ Len(merkleRoots') >= Len(merkleRoots)
       /\ SubSeq(merkleRoots', 1, Len(merkleRoots)) = merkleRoots
       /\ \A r \in Hash : isValidRoot(r) => isValidRoot(r)']_vars

\* A later root was recorded after the genesis root, and the withdraw just
\* made passed its checks with the genesis root and sent its transfer.
C17_Witness ==
    /\ Len(merkleRoots) >= 2
    /\ getCurrentRoot # merkleRoots[1]
    /\ last.op = "withdraw"
    /\ last.err = PENDING
    /\ last.verifier.inputs[1] = merkleRoots[1]
    /\ last.transfer.value = DEPOSIT_AMOUNT

\* C18 as claimed: a withdraw whose call of the verifier reverts fails with
\* 'Invalid proof', as one whose verifier answers false does.
C18_VerifierFailureIsInvalidProof ==
    [][(/\ last'.op = "withdraw"
        /\ last'.verifier # NoCall
        /\ verifierReverts(last'.verifier.proof))
          => last'.err = ErrProof]_vars

\* The number of successful deposits so far.
RECURSIVE SumDeposits(_)
SumDeposits(S) ==
    IF S = {} THEN 0
    ELSE LET c == CHOOSE c \in S : TRUE
         IN deposits[c] + SumDeposits(S \ {c})

\* The number of leaves of a tree of TreeLevels levels.
Capacity == 2 ^ TreeLevels

\* C19 as claimed: the number of successful deposits never exceeds the
\* capacity of the tree, since the deposit after the last free leaf is
\* refused.
C19_CapacityNeverExceeded == SumDeposits(Hash) <= Capacity

\* C20: a call of addMerkleRoot, pause, unpause or emergencyWithdraw by an
\* account that is not the owner fails with 'Ownable: caller is not the
\* owner', changes nothing and sends nothing, whatever its arguments; and
\* the root history and the pause flag change only in a successful
\* addMerkleRoot, pause or unpause.
C20_OwnerOnly ==
    /\ [](\A c \in Accounts \ {Owner} :
            /\ \A r \in Hash : AddMerkleRootOutcome(c, r) = Reverted(ErrNotOwner)
            /\ PauseOutcome(c) = Reverted(ErrNotOwner)
            /\ UnpauseOutcome(c) = Reverted(ErrNotOwner)
            /\ \A to \in Addr, acc \in BOOLEAN :
                  EmergencyWithdrawOutcome(c, to, acc) = Reverted(ErrNotOwner))
    /\ [][/\ merkleRoots' # merkleRoots => last' = Result("addMerkleRoot", OK)
          /\ paused' # paused => last' \in {Result("pause", OK), Result("unpause", OK)}
          /\ (last'.op \in {"addMerkleRoot", "pause", "unpause", "emergencyWithdraw"}
                 /\ last'.err = ErrNotOwner)
                => UNCHANGED store]_vars

\* The contract holds funds and a spent nullifier, is not paused, and the
\* emergencyWithdraw just made was refused because its caller is not the
\* owner.
C20_Witness ==
    /\ balance >= DEPOSIT_AMOUNT
    /\ nullifiers # {}
    /\ commitments # {}
    /\ ~paused
    /\ Accounts \ {Owner} # {}
    /\ last = EmergencyResult(ErrNotOwner, NoTransfer)


\* C22: the circuit is sound for its age threshold: when the private age is
\* below the public minimum age no witness satisfies it, so proof
\* generation fails.
C22_UnderageProofFails ==
    (klast.op = "fullProve" /\ klast.age < klast.minAge) => klast.err # OK

\* The same for the inputs the tests build: a correctly signed credential
\* of an age below the minimum has a satisfying witness, with output 0.
C22_UnderageWitnessExists ==
    /\ klast.op = "fullProve"
    /\ klast.age = MIN_AGE - 1 /\ klast.minAge = MIN_AGE
    /\ klast.err = OK /\ klast.valid = 0


\* What the calls do to the trusted set: the owner's add puts the key in
\* and touches no other key, anyone else's add fails and changes nothing, a
\* remove that succeeds takes the key out and touches no other key, and no
\* verification, single or batched, changes the set.
TrustedSetCalls ==
    /\ \A c \in Accounts, k \in Keys :
          LET a == AddTrustedIssuerOutcome(c, k)
              r == RemoveTrustedIssuerOutcome(c, k)
          IN /\ c # Owner => a.err # OK /\ a.post = KStore
             /\ c = Owner => a.err = OK /\ a.post.trustedIssuers = trustedIssuers \cup {k}
             /\ r.err # OK => r.post = KStore
             /\ r.err = OK => r.post.trustedIssuers = trustedIssuers \ {k}
             /\ RemoveTrustedIssuerOutcome(Owner, k).err = OK
    /\ \A c \in Accounts, p \in KProofs, h \in AgeHashes, k \in Keys, m \in MinAges :
          VerifyAgeProofOutcome(c, p, h, k, m).post.trustedIssuers = trustedIssuers

\* C23: isTrustedIssuer(k) is true exactly when the owner has added k and
\* it has not been removed since, and a non-owner's add fails: no key is
\* trusted at deployment, the calls act on the trusted set as above, and
\* the set changes in no step but a successful add or remove.
C23_TrustedIssuers ==
    /\ \A k \in Keys : ~isTrustedIssuer(k)
    /\ [](TrustedSetCalls)
    /\ [][trustedIssuers' # trustedIssuers =>
            /\ klast'.op \in {"addTrustedIssuer", "removeTrustedIssuer"}
            /\ klast'.err = OK]_allvars

\* A remove has just succeeded and left one key trusted and another not.
C23_Witness ==
    /\ klast.op = "removeTrustedIssuer" /\ klast.err = OK
    /\ \E k \in Keys : isTrustedIssuer(k)
    /\ \E k \in Keys : ~isTrustedIssuer(k)


\* The arguments of verifyAgeProof: caller, proof, age hash, issuer key and
\* minimum age.
AgeProofArgs == Accounts \X KProofs \X AgeHashes \X Keys \X MinAges

AgeProofOutcomeOf(x) == VerifyAgeProofOutcome(x[1], x[2], x[3], x[4], x[5])

IssuerTrusted(x) == isTrustedIssuer(x[4])

MinAgeEnough(x) == x[5] >= MIN_AGE

AgeProofVerifies(x) == kycVerifyProof(x[2], KPublicInputs(x[3], x[4], x[5]))

\* C24: verifyAgeProof fails, and leaves the contract as it was (the caller
\* is not marked verified), when the issuer key is not trusted, when the
\* minimum age is below MIN_AGE, or when the proof does not verify; the
\* error is UntrustedIssuer, 'Minimum age too low' or InvalidProof when
\* that check is the only one that fails. A call passing the three checks
\* succeeds, marks the caller verified and stores the age hash, and changes
\* nobody else. An address never verified reports false and age hash 0.
C24_VerifyAgeProof ==
    /\ \A x \in AgeProofArgs :
          LET o == AgeProofOutcomeOf(x)
              c == x[1]
          IN IF IssuerTrusted(x) /\ MinAgeEnough(x) /\ AgeProofVerifies(x)
             THEN /\ o.err = OK
                  /\ c \in o.post.verifiedUsers
                  /\ o.post.userAgeHashes[c] = x[3]
                  /\ o.post.trustedIssuers = trustedIssuers
                  /\ \A u \in Accounts \ {c} :
                        /\ (u \in o.post.verifiedUsers) = isUserVerified(u)
                        /\ o.post.userAgeHashes[u] = getUserAgeHash(u)
             ELSE /\ o.err # OK
                  /\ o.post = KStore
                  /\ (MinAgeEnough(x) /\ AgeProofVerifies(x)) => o.err = ErrUntrustedIssuer
                  /\ (IssuerTrusted(x) /\ AgeProofVerifies(x)) => o.err = ErrMinAge
                  /\ (IssuerTrusted(x) /\ MinAgeEnough(x)) => o.err = ErrInvalidProof
    /\ \A u \in Accounts :
          ageVerified[u] = 0 => ~isUserVerified(u) /\ getUserAgeHash(u) = 0

\* A verifyAgeProof has just succeeded: one user is verified with a stored
\* age hash and another has never been verified.
C24_Witness ==
    /\ klast.op = "verifyAgeProof" /\ klast.err = OK
    /\ \E u \in Accounts : isUserVerified(u) /\ getUserAgeHash(u) # 0
    /\ \E u \in Accounts : ageVerified[u] = 0
    /\ \E x \in AgeProofArgs : IssuerTrusted(x) /\ ~MinAgeEnough(x) /\ AgeProofVerifies(x)


\* The same call made again on the state a first call left.
Resubmitted(x) ==
    VerifyAgeProofOn(AgeProofOutcomeOf(x).post, x[1], x[2], x[3], x[4], x[5])

C26_PublicInputVector ==
    /\ \A x \in WithdrawArgs :
          LET call == WithdrawCheck(x[1], x[2], x[3], x[4]).call
          IN call # NoCall =>
                /\ call.proof = x[1]
                /\ Len(call.inputs) = 3
                /\ call.inputs[1] = x[2]
                /\ call.inputs[2] = x[3]
                /\ call.inputs[3] = x[4]
    /\ (last.op = "withdraw" /\ last.err = PENDING) =>
          /\ last.verifier # NoCall
          /\ last.verifier.inputs[3] = last.transfer.to
          /\ last.verifier.inputs[2] = Top.nullifierHash
          /\ last.verifier.inputs[2] \in nullifiers

\* The withdraw just made paid its recipient on a root that is not the
\* latest stored root, with a nullifier different from that root: the
\* vector passed is the call's and not a stored or reordered one.
C26_Witness ==
    /\ last.op = "withdraw" /\ last.err = PENDING
    /\ last.verifier.inputs[1] # getCurrentRoot
    /\ last.verifier.inputs[1] # last.verifier.inputs[2]
    /\ last.verifier.inputs[3] # Owner


\* The same withdraw made again, to a recipient that accepts the ether.
Retried(x) == WithdrawOutcome(x[1], x[2], x[3], x[4], TRUE)

\* C27: a withdraw that passes every check and whose transfer fails, fails
\* with 'Transfer failed' and is rolled back whole: the nullifier is not
\* spent, the balance and the rest of the state are as before and nothing
\* is sent; so the same withdraw made again to an accepting recipient, the
\* contract holding the amount, succeeds and spends the nullifier.
C27_TransferFailedRollsBack ==
    /\ \A x \in WithdrawArgs :
          (WithdrawCheck(x[1], x[2], x[3], x[4]).err = OK /\ ~Sent(TransferAmount, x[5])) =>
             /\ OutcomeOf(x).err = ErrTransfer
             /\ Refused(OutcomeOf(x))
             /\ x[3] \notin OutcomeOf(x).post.nullifiers
             /\ OutcomeOf(x).post.balance = balance
             /\ balance >= TransferAmount =>
                   /\ Retried(x).err = PENDING
                   /\ x[3] \in Retried(x).post.nullifiers
                   /\ Retried(x).transfer = Transfer(x[4], TransferAmount)
    /\ (last.op = "withdraw" /\ last.err = ErrTransfer) =>
          /\ last.verifier # NoCall
          /\ last.verifier.inputs[2] \notin nullifiers
          /\ last.transfer = NoTransfer

\* The withdraw just made failed in its transfer although the contract
\* holds the amount; its nullifier is unspent and the same withdraw to an
\* accepting recipient would now succeed.
C27_Witness ==
    /\ last.op = "withdraw" /\ last.err = ErrTransfer
    /\ balance >= TransferAmount
    /\ \E x \in WithdrawArgs :
          /\ x[1] = last.verifier.proof
          /\ <<x[2], x[3], x[4]>> = last.verifier.inputs
          /\ x[3] \notin nullifiers
          /\ Retried(x).err = PENDING


\* The genesis root the constructor pushes.
GenesisRoot == 0

\* The root is an entry of the history roots.
InHistory(roots, root) == \E i \in DOMAIN roots : roots[i] = root

\* C28: isValidRoot(r) is true exactly when r is the genesis root or was
\* passed to a successful addMerkleRoot: at deployment it is true of the
\* genesis root only, a successful addMerkleRoot makes it true of the root
\* passed and changes no other answer, and no other step changes an answer.
\* The owner's addMerkleRoot of a root already valid succeeds and changes
\* no answer.
C28_ValidRootIffAdded ==
    /\ \A r \in Hash : isValidRoot(r) = (r = GenesisRoot)
    /\ [](\A r \in Hash :
            /\ isValidRoot(r) = InHistory(merkleRoots, r)
            /\ isValidRoot(r) =>
                  LET o == AddMerkleRootOutcome(Owner, r)
                  IN /\ o.err = OK
                     /\ o.post.merkleRoots = Append(merkleRoots, r)
                     /\ \A q \in Hash :
                           InHistory(o.post.merkleRoots, q) = isValidRoot(q))
    /\ [][IF last'.op = "addMerkleRoot" /\ last'.err = OK /\ merkleRoots' # merkleRoots
          THEN \E n \in Hash :
                  /\ merkleRoots' = Append(merkleRoots, n)
                  /\ \A r \in Hash : isValidRoot(r)' = (isValidRoot(r) \/ r = n)
          ELSE \A r \in Hash : isValidRoot(r)' = isValidRoot(r)]_vars

\* The addMerkleRoot just made succeeded with the root that was already in
\* the history, and another root is still not valid.
C28_Witness ==
    /\ last.op = "addMerkleRoot" /\ last.err = OK
    /\ Len(merkleRoots) = 2
    /\ merkleRoots[2] = merkleRoots[1]
    /\ \E r \in Hash : ~isValidRoot(r)


\* C29: the commitment set is append-only: a commitment recorded in a state
\* is recorded in every later state; no step (deposit, failed or not,
\* withdraw, its return, administrative call) removes one.
C29_CommitmentsAppendOnly ==
    [][\A c \in Hash : c \in commitments => c \in commitments']_vars

\* Both commitments are recorded, a withdrawal has completed, the owner has
\* drained the contract, and the deposit just made was refused as a
\* duplicate.
C29_Witness ==
    /\ commitments = Hash
    /\ \E h \in Hash : withdrawals[h] >= 1
    /\ balance = 0
    /\ last.op = "deposit" /\ last.err = ErrCommitment


\* The number of successful withdrawals so far: those that completed and
\* those that made their transfer and wait for the recipient to return.
RECURSIVE SumWithdrawals(_)
SumWithdrawals(S) ==
    IF S = {} THEN 0
    ELSE LET h == CHOOSE h \in S : TRUE
         IN withdrawals[h] + PendingWithdrawals(h) + SumWithdrawals(S \ {h})

\* C30: in the executions without emergencyWithdraw the balance the
\* contract holds is DEPOSIT_AMOUNT times the number of successful deposits
\* less the number of successful withdrawals, in every reachable state; so
\* there are never more successful withdrawals than successful deposits,
\* although a proof exists for every root, nullifier and recipient.
C30_BalanceIsDepositsLessWithdrawals ==
    /\ getBalance = DEPOSIT_AMOUNT * (SumDeposits(Hash) - SumWithdrawals(Hash))
    /\ SumWithdrawals(Hash) <= SumDeposits(Hash)

\* One deposit was made and withdrawn, and the withdraw just made, of a
\* nullifier not yet spent with a proof that verifies, failed in its
\* transfer because the contract holds nothing.
C30_Witness ==
    /\ SumDeposits(Hash) = 1
    /\ SumWithdrawals(Hash) = 1
    /\ stack = <<>>
    /\ getBalance = 0
    /\ last.op = "withdraw" /\ last.err = ErrTransfer
    /\ last.verifier.inputs[2] \notin nullifiers


\* A withdraw has made its transfer and its recipient has not returned.
WithdrawExecuting == \E i \in DOMAIN stack : stack[i].fn = "withdraw"

\* C31: while a withdraw is executing its external transfer the reentrancy
\* guard is held, and every deposit and every withdraw called then is
\* refused (by the guard, when the system is not paused) and changes
\* nothing; at most one withdraw is executing at a time, and while it is
\* no step changes the commitments, the nullifiers or the counts of
\* deposits and withdrawals.
C31_NoInterleaving ==
    /\ [](WithdrawExecuting =>
            /\ status = ENTERED
            /\ Cardinality({i \in DOMAIN stack : stack[i].fn = "withdraw"}) = 1
            /\ \A cm \in Hash, v \in Values :
                  /\ Refused(DepositOutcome(cm, v))
                  /\ ~paused => DepositOutcome(cm, v).err = ErrReentrant
            /\ \A x \in WithdrawArgs :
                  /\ Refused(OutcomeOf(x))
                  /\ ~paused => OutcomeOf(x).err = ErrReentrant)
    /\ [][(WithdrawExecuting /\ WithdrawExecuting') =>
            UNCHANGED <<commitments, nullifiers, deposits, withdrawals>>]_vars

\* A withdraw waits for its recipient, and a deposit of the right amount
\* and a new commitment made from the recipient's code was refused by the
\* reentrancy guard.
C31_Witness ==
    /\ stack # <<>>
    /\ Top.fn = "withdraw"
    /\ ~paused
    /\ commitments # Hash
    /\ last = Result("deposit", ErrReentrant)


\* The fields of the contract's state s outside fields are those of the
\* current state.
OnlyChanges(s, fields) ==
    \A f \in DOMAIN Store \ fields : s[f] = Store[f]

\* What each call leaves alone, whatever its arguments and its outcome.
FrameOfCalls ==
    /\ \A cm \in Hash, v \in Values :
          OnlyChanges(DepositOutcome(cm, v).post, {"commitments", "balance", "deposits"})
    /\ \A x \in WithdrawArgs :
          OnlyChanges(OutcomeOf(x).post, {"nullifiers", "balance", "status"})
    /\ \A c \in Accounts, r \in Hash :
          OnlyChanges(AddMerkleRootOutcome(c, r).post, {"merkleRoots"})
    /\ \A c \in Accounts :
          /\ OnlyChanges(PauseOutcome(c).post, {"paused"})
          /\ OnlyChanges(UnpauseOutcome(c).post, {"paused"})

\* C32: each operation touches its own part of the state only: deposit
\* leaves the nullifiers and the root history alone, withdraw the
\* commitments and the root history, addMerkleRoot the commitments, the
\* nullifiers and the balance, and pause and unpause all but the pause flag.
\* A withdraw does not depend on the commitments: a step that changes them
\* changes the result of no withdraw's checks, and a withdraw succeeds
\* whether or not its nullifier hash is among them.
C32_Frames ==
    /\ [](FrameOfCalls)
    /\ [][commitments' # commitments =>
            \A x \in WithdrawArgs :
               WithdrawCheck(x[1], x[2], x[3], x[4])' = WithdrawCheck(x[1], x[2], x[3], x[4])]_vars
    /\ [](\A x \in WithdrawArgs :
             (OutcomeOf(x).err \in Succeeded) = (C9_Listed(x) /\ status = NOT_ENTERED))

\* The withdraw just made paid, with a nullifier hash that is no stored
\* commitment, after a root was added; a commitment is stored and the
\* system has been paused and unpaused or never paused.
C32_Witness ==
    /\ last.op = "withdraw" /\ last.err = PENDING
    /\ Top.nullifierHash \notin commitments
    /\ commitments # {}
    /\ Len(merkleRoots) = 2
    /\ ~paused


\* C33: emergencyWithdraw called by the owner hands the whole balance to
\* `to` and leaves nullifiers, commitments and root history (all but the
\* balance) as they were, or fails and changes nothing; the balance grows
\* in no step but a successful deposit; and while the contract holds less
\* than DEPOSIT_AMOUNT a withdraw that passes every check fails with
\* 'Transfer failed', changes nothing and leaves its nullifier unspent.
C33_EmergencyDrains ==
    /\ [](\A to \in Addr, acc \in BOOLEAN :
            LET o == EmergencyWithdrawOutcome(Owner, to, acc)
            IN IF o.err \in Succeeded
               THEN /\ o.transfer = Transfer(to, balance)
                    /\ o.post = [Store EXCEPT !.balance = 0]
               ELSE Refused(o))
    /\ [](balance < DEPOSIT_AMOUNT =>
            \A x \in WithdrawArgs :
               WithdrawCheck(x[1], x[2], x[3], x[4]).err = OK =>
                  /\ OutcomeOf(x) = Reverted(ErrTransfer)
                  /\ x[3] \notin OutcomeOf(x).post.nullifiers)
    /\ [][/\ (last'.op = "emergencyWithdraw" /\ last'.err = PENDING) =>
               /\ balance' = 0
               /\ last'.transfer.value = balance
               /\ UNCHANGED <<nullifiers, commitments, merkleRoots, paused, status>>
          /\ balance' > balance => (last'.op = "deposit" /\ last'.err = OK)]_vars

\* Deposits were made and none withdrawn, the owner's emergencyWithdraw has
\* completed and the balance is zero; the withdraw just made passed every
\* check and failed in its transfer, its nullifier unspent.
C33_Witness ==
    /\ SumDeposits(Hash) = 2
    /\ SumWithdrawals(Hash) = 0
    /\ stack = <<>>
    /\ balance = 0
    /\ commitments = Hash
    /\ nullifiers = {}
    /\ last.op = "withdraw" /\ last.err = ErrTransfer
    /\ last.verifier # NoCall


\* C34: the root history is never empty: it starts with the genesis root
\* and keeps it, so isValidRoot(0) is true in every reachable state;
\* getCurrentRoot always has an entry to return, which is the genesis root
\* at deployment and, after every step that changes the history, the root
\* that step appended.
C34_HistoryNeverEmpty ==
    /\ getCurrentRoot = GenesisRoot
    /\ [](/\ Len(merkleRoots) >= 1
          /\ merkleRoots[1] = GenesisRoot
          /\ isValidRoot(GenesisRoot)
          /\ getCurrentRoot \in Hash
          /\ isValidRoot(getCurrentRoot)
          /\ \A r \in Hash :
                LET o == AddMerkleRootOutcome(Owner, r)
                IN o.err = OK /\ o.post.merkleRoots[Len(o.post.merkleRoots)] = r)
    /\ [][merkleRoots' # merkleRoots =>
            /\ merkleRoots' = Append(merkleRoots, getCurrentRoot')
            /\ last'.op = "addMerkleRoot" /\ last'.err = OK]_vars

\* The owner has just added a root that is not the genesis root: it is the
\* current root, and the genesis root is still valid.
C34_Witness ==
    /\ last = Result("addMerkleRoot", OK)
    /\ Len(merkleRoots) = 2
    /\ getCurrentRoot # GenesisRoot
    /\ isValidRoot(GenesisRoot)


\* C35: the pause does not gate the administrative operations: while the
\* system is paused the owner's addMerkleRoot succeeds and appends its root,
\* and the owner's emergencyWithdraw to an address that accepts the ether
\* succeeds and hands over the balance, although every deposit and every
\* withdraw is refused then.
C35_AdminNotPaused ==
    paused =>
       /\ \A r \in Hash :
             LET o == AddMerkleRootOutcome(Owner, r)
             IN /\ o.err = OK
                /\ o.post = [Store EXCEPT !.merkleRoots = Append(@, r)]
       /\ \A to \in Addr, acc \in BOOLEAN :
             LET o == EmergencyWithdrawOutcome(Owner, to, acc)
             IN (to = Null \/ acc) =>
                   /\ o.err = PENDING
                   /\ o.transfer = Transfer(to, balance)
                   /\ o.post.balance = 0
       /\ \A cm \in Hash, v \in Values : Refused(DepositOutcome(cm, v))
       /\ \A x \in WithdrawArgs : Refused(OutcomeOf(x))

\* While the system is paused the owner's emergencyWithdraw has just handed
\* over a balance that was not zero, and the history holds an added root.
C35_Witness ==
    /\ paused
    /\ last.op = "emergencyWithdraw" /\ last.err = PENDING
    /\ last.transfer.value >= DEPOSIT_AMOUNT
    /\ balance = 0
    /\ Len(merkleRoots) = 2


\* The ways a deposit fails and the ways a withdraw fails.
DepositErrors == {ErrPaused, ErrReentrant, ErrAmount, ErrCommitment}

WithdrawErrors ==
    {ErrPaused, ErrReentrant, ErrRecipient, ErrNullifier, ErrRoot, ErrVerifier,
     ErrProof, ErrTransfer}

\* C36: every deposit and every withdraw ends at once in success or in one
\* error of its kinds, whatever the state and the arguments: a deposit has
\* succeeded or failed when its step is over, a withdraw has failed or has
\* made its transfer, and then waits for nothing but the return of its
\* recipient, which no state of the contract holds up; a failure leaves no
\* effect. The loop of isValidRoot runs its body at most once per entry of
\* the root history, and once per entry when the root is not there.
C36_CallsTerminate ==
    /\ \A cm \in Hash, v \in Values :
          LET o == DepositOutcome(cm, v)
          IN /\ o.err \in {OK} \cup DepositErrors
             /\ o.err \in DepositErrors => Refused(o)
    /\ \A x \in WithdrawArgs :
          LET o == OutcomeOf(x)
          IN /\ o.err \in {PENDING} \cup WithdrawErrors
             /\ o.err \in WithdrawErrors => Refused(o)
    /\ (stack # <<>> /\ Top.fn = "withdraw") => ENABLED WithdrawReturn
    /\ last.op \in {"deposit", "withdraw"} =>
          last.err \in {OK, PENDING} \cup DepositErrors \cup WithdrawErrors
    /\ \A r \in Hash :
          /\ isValidRootIterations(1, r) <= Len(merkleRoots)
          /\ ~isValidRoot(r) => isValidRootIterations(1, r) = Len(merkleRoots)
          /\ isValidRoot(r) => merkleRoots[isValidRootIterations(1, r)] = r

\* The history is as long as the bound allows and a root is not in it, so
\* that the loop runs over every entry; the withdraw just made looked for
\* such a root and failed for it, and no call is executing.
C36_Witness ==
    /\ Len(merkleRoots) = MaxRoots
    /\ \E r \in Hash : ~isValidRoot(r) /\ isValidRootIterations(1, r) = MaxRoots
    /\ last = WithdrawResult(ErrRoot, NoCall, NoTransfer)
    /\ stack = <<>>


\* C37: deposit checks the amount before the duplicate: a deposit that
\* passes the modifiers with a wrong value and a commitment already stored
\* fails with 'Incorrect deposit amount'; 'Commitment exists' is the error
\* only of a deposit of the right value.
C37_AmountBeforeDuplicate ==
    \A cm \in Hash, v \in Values :
       LET o == DepositOutcome(cm, v)
       IN /\ (Admitted /\ v # DEPOSIT_AMOUNT /\ cm \in commitments) =>
                /\ o.err = ErrAmount
                /\ DepositCheck(cm, v) # ErrCommitment
          /\ o.err = ErrCommitment =>
                /\ v = DEPOSIT_AMOUNT
                /\ cm \in commitments
          /\ (Admitted /\ v = DEPOSIT_AMOUNT /\ cm \in commitments) =>
                o.err = ErrCommitment

\* Every commitment is stored, so that the deposit just made repeated one;
\* it passed the modifiers and was refused for its amount.
C37_Witness ==
    /\ commitments = Hash
    /\ Admitted
    /\ last = Result("deposit", ErrAmount)

-----------------------------------------------------------------------------
\* The circuit compilation script (src/unnamed/part_000, lines 1-255).
\* A step is modelled by whether it returns: TRUE when it returns, FALSE when
\* it throws.  What the file system and the external commands (curl, circom,
\* node, snarkjs) answer is an input of the step.

\* ensureDirectoryExists: mkdirSync is called only when the directory is
\* missing, and throws when it cannot create it.
ensureDirectoryExists(exists, mkdirOk) == exists \/ mkdirOk

\* runCommand: execAsync rejects when the command fails, and the error is
\* logged and thrown again.
runCommand(commandOk) == commandOk

\* downloadPowersOfTau: returns at once when the file is there, else curl.
downloadPowersOfTau(tauExists, curlOk) ==
    IF tauExists THEN TRUE ELSE runCommand(curlOk)

\* compileCircuit: circom, then every required output file must exist.
compileCircuit(circomOk, filesExist) ==
    IF ~runCommand(circomOk) THEN FALSE ELSE filesExist

\* generateWitness: writes input.json, then runs the witness generator.
generateWitness(writeOk, witnessOk) ==
    IF ~writeOk THEN FALSE ELSE runCommand(witnessOk)

\* trustedSetup: setup, contribution, export of the verification key.
trustedSetup(setupOk, contributeOk, exportOk) ==
    IF ~runCommand(setupOk) THEN FALSE
    ELSE IF ~runCommand(contributeOk) THEN FALSE
    ELSE runCommand(exportOk)

generateSolidityVerifier(exportOk) == runCommand(exportOk)

\* generateProofTest: prove, then verify.
generateProofTest(proveOk, verifyOk) ==
    IF ~runCommand(proveOk) THEN FALSE ELSE runCommand(verifyOk)

\* printSummary only writes to the console.
printSummary == TRUE

\* checkDependencies: circom --version, then snarkjs --version.
checkDependencies(circomInstalled, snarkjsInstalled) ==
    circomInstalled /\ snarkjsInstalled

\* The steps in the order the script awaits them: checkDependencies and,
\* when it resolves, the body of main.
CompileSteps ==
    <<"checkDependencies",
      "ensureDirectoryExists(BUILD_DIR)",
      "ensureDirectoryExists(CONTRACTS_DIR)",
      "downloadPowersOfTau",
      "compileCircuit",
      "generateWitness",
      "trustedSetup",
      "generateSolidityVerifier",
      "generateProofTest",
      "printSummary">>

Step(step, ok) == [step |-> step, ok |-> ok]

\* Mutant: the error of a step is swallowed and the run goes on.
RunStep_NoAbort(step, ok) ==
    /\ cexit = <<>>
    /\ Len(clog) < Len(CompileSteps)
    /\ CompileSteps[Len(clog) + 1] = step
    /\ clog' = Append(clog, Step(step, ok))
    /\ cexit' = IF Len(clog') = Len(CompileSteps) THEN <<0>> ELSE <<>>
    /\ UNCHANGED <<tresults, treturned, dlog, dexit, deffects, denv>>
    /\ UNCHANGED <<vars, kvars>>

\* One awaited step of the script.  A step that throws ends the run in the
\* catch block with process.exit(1) (in checkDependencies, in its own catch
\* block); when the last step has returned the process ends with code 0.
RunStep(step, ok) ==
    /\ cexit = <<>>
    /\ Len(clog) < Len(CompileSteps)
    /\ CompileSteps[Len(clog) + 1] = step
    /\ clog' = Append(clog, Step(step, ok))
    /\ cexit' = IF ~ok THEN <<1>>
                ELSE IF Len(clog') = Len(CompileSteps) THEN <<0>>
                ELSE <<>>
    /\ UNCHANGED <<tresults, treturned, dlog, dexit, deffects, denv>>
    /\ UNCHANGED <<vars, kvars>>

CheckDependencies(circomInstalled, snarkjsInstalled) ==
    RunStep("checkDependencies",
            checkDependencies(circomInstalled, snarkjsInstalled))

EnsureBuildDir(exists, mkdirOk) ==
    RunStep("ensureDirectoryExists(BUILD_DIR)",
            ensureDirectoryExists(exists, mkdirOk))

EnsureContractsDir(exists, mkdirOk) ==
    RunStep("ensureDirectoryExists(CONTRACTS_DIR)",
            ensureDirectoryExists(exists, mkdirOk))

DownloadPowersOfTau(tauExists, curlOk) ==
    RunStep("downloadPowersOfTau", downloadPowersOfTau(tauExists, curlOk))

CompileCircuit(circomOk, filesExist) ==
    RunStep("compileCircuit", compileCircuit(circomOk, filesExist))

GenerateWitness(writeOk, witnessOk) ==
    RunStep("generateWitness", generateWitness(writeOk, witnessOk))

TrustedSetup(setupOk, contributeOk, exportOk) ==
    RunStep("trustedSetup", trustedSetup(setupOk, contributeOk, exportOk))

GenerateSolidityVerifier(exportOk) ==
    RunStep("generateSolidityVerifier", generateSolidityVerifier(exportOk))

GenerateProofTest(proveOk, verifyOk) ==
    RunStep("generateProofTest", generateProofTest(proveOk, verifyOk))

PrintSummary == RunStep("printSummary", printSummary)

CompileNext ==
    \/ \E a, b \in BOOLEAN : CheckDependencies(a, b)
    \/ \E a, b \in BOOLEAN : EnsureBuildDir(a, b)
    \/ \E a, b \in BOOLEAN : EnsureContractsDir(a, b)
    \/ \E a, b \in BOOLEAN : DownloadPowersOfTau(a, b)
    \/ \E a, b \in BOOLEAN : CompileCircuit(a, b)
    \/ \E a, b \in BOOLEAN : GenerateWitness(a, b)
    \/ \E a, b, c \in BOOLEAN : TrustedSetup(a, b, c)
    \/ \E a \in BOOLEAN : GenerateSolidityVerifier(a)
    \/ \E a, b \in BOOLEAN : GenerateProofTest(a, b)
    \/ PrintSummary

-----------------------------------------------------------------------------
\* KYCProofGenerator.generateTestCases (scripts/generate-proof.js).

\* const testCases, by age.
testCases == <<[age |-> 25], [age |-> MIN_AGE], [age |-> 65]>>

\* generateIssuerCredentials: the one mock private key of the script.
MockIssuerPrivateKey == 1

ErrArtifacts == "ENOENT: circuit artifacts"
ErrWrite == "ENOENT: proof file"

\* snarkjs.groth16.fullProve as the script calls it: it throws when the
\* circuit files cannot be read and when a constraint does not hold.
fullProve(in, artifactsOk) ==
    IF ~artifactsOk THEN [err |-> ErrArtifacts, valid |-> 0]
    ELSE FullProveOutcome(in)

\* generateProof: fullProve is called twice, and an error of either call is
\* logged and thrown again.
generateProof(in, artifactsOk1, artifactsOk2) ==
    LET first == fullProve(in, artifactsOk1)
        second == fullProve(in, artifactsOk2)
    IN IF first.err # OK THEN first ELSE second

\* verifyProofLocally: the answer of groth16.verify, and false when reading
\* the key or verifying throws; it never throws.
verifyProofLocally(keyOk, res) == IF ~keyOk THEN FALSE ELSE res

\* saveProof: writeFileSync throws when the file cannot be written.
saveProof(writeOk) == IF writeOk THEN OK ELSE ErrWrite

\* The body of the for loop for one test case: the record pushed to results.
\* isValid is absent from a failure record and error from a success record;
\* they are FALSE and OK here.
TestCaseResult(testCase, artifactsOk1, artifactsOk2, keyOk, res, writeOk) ==
    LET inputs == generateCircuitInputs(testCase.age, MockIssuerPrivateKey,
                                        MIN_AGE)
        p == generateProof(inputs, artifactsOk1, artifactsOk2)
        isValid == verifyProofLocally(keyOk, res)
        saved == saveProof(writeOk)
    IN IF p.err # OK
       THEN [age |-> testCase.age, success |-> FALSE, isValid |-> FALSE,
             error |-> p.err]
       ELSE IF saved # OK
       THEN [age |-> testCase.age, success |-> FALSE, isValid |-> FALSE,
             error |-> saved]
       ELSE [age |-> testCase.age, success |-> TRUE, isValid |-> isValid,
             error |-> OK]

\* Mutant: an error of a test case is not caught, and generateTestCases ends
\* with what it has.
GenerateTestCase_Uncaught(artifactsOk1, artifactsOk2, keyOk, res, writeOk) ==
    /\ treturned = <<>>
    /\ Len(tresults) < Len(testCases)
    /\ LET r == TestCaseResult(testCases[Len(tresults) + 1], artifactsOk1,
                               artifactsOk2, keyOk, res, writeOk)
       IN IF r.success
          THEN tresults' = Append(tresults, r) /\ UNCHANGED treturned
          ELSE treturned' = <<tresults>> /\ UNCHANGED tresults
    /\ UNCHANGED <<clog, cexit, dlog, dexit, deffects, denv>>
    /\ UNCHANGED <<vars, kvars>>

\* One iteration of the for loop: the next test case, in the order of
\* testCases; its record is pushed whether it succeeded or threw.
GenerateTestCase(artifactsOk1, artifactsOk2, keyOk, res, writeOk) ==
    /\ treturned = <<>>
    /\ Len(tresults) < Len(testCases)
    /\ tresults' = Append(tresults,
                          TestCaseResult(testCases[Len(tresults) + 1],
                                         artifactsOk1, artifactsOk2, keyOk,
                                         res, writeOk))
    /\ UNCHANGED <<clog, cexit, treturned, dlog, dexit, deffects, denv>>
    /\ UNCHANGED <<vars, kvars>>

\* return results, once the loop has gone through testCases.
GenerateTestCasesReturn ==
    /\ treturned = <<>>
    /\ Len(tresults) = Len(testCases)
    /\ treturned' = <<tresults>>
    /\ UNCHANGED <<clog, cexit, tresults, dlog, dexit, deffects, denv>>
    /\ UNCHANGED <<vars, kvars>>

TestCasesNext ==
    \/ \E a, b, c, d, e \in BOOLEAN : GenerateTestCase(a, b, c, d, e)
    \/ GenerateTestCasesReturn

-----------------------------------------------------------------------------
\* The deployment script (src/unnamed/part_000, lines 257-569).

\* What the script leaves on chain and on disk, by name.
DeploymentFiles == <<"network.json", "network-abi.json", "frontend-config.json">>

DeployEffects ==
    {"Verifier", "KYCVerifier", "addTrustedIssuer"}
        \cup {DeploymentFiles[i] : i \in DOMAIN DeploymentFiles}

\* The balances the deployer can have: none, or some.
Balances == {0, 1}

\* Mutant: main does not look for contracts/Verifier.sol.
mainChecks_NoFileCheck(rpcOk, bal, verifierSol) ==
    IF ~rpcOk THEN FALSE ELSE bal # 0

\* The start of main: the network, the signer and the balance are read (any
\* of which can throw), then main throws when the balance is zero and when
\* contracts/Verifier.sol does not exist.
mainChecks(rpcOk, bal, verifierSol) ==
    IF ~rpcOk THEN FALSE
    ELSE IF bal = 0 THEN FALSE
    ELSE verifierSol

\* deployVerifier and deployKYCVerifier: deploy() sends the transaction, and
\* waitForDeployment and getAddress can still throw after it was sent.
deployContract(sent, waited) ==
    [effects |-> IF sent THEN 1 ELSE 0, ok |-> sent /\ waited]

\* setupTrustedIssuers: addTrustedIssuer is sent, then tx.wait and the
\* isTrustedIssuer call can still throw.
setupTrustedIssuers(sent, waited) ==
    [effects |-> IF sent THEN 1 ELSE 0, ok |-> sent /\ waited]

\* saveDeploymentInfo: the three files are written one after the other, and
\* it throws at the first thing that fails: the directory, JSON.stringify,
\* getContractFactory or a write.
saveDeploymentInfo(written) ==
    [effects |-> written, ok |-> written = Len(DeploymentFiles)]

\* The objects main hands to verifyDeployment, as records of their
\* properties: what deployKYCVerifier returns wraps the contract.
KYCVerifierContract ==
    [MIN_AGE |-> MIN_AGE, owner |-> "deployer", isTrustedIssuer |-> TRUE]

kycVerifierDeployment ==
    [kycVerifier |-> KYCVerifierContract, address |-> "KYCVerifier"]

deployments ==
    [verifier |-> [verifier |-> "Verifier", address |-> "Verifier"],
     kycVerifier |-> kycVerifierDeployment,
     trustedIssuers |-> <<"mockIssuerPublicKey">>]

\* verifyDeployment: const { kycVerifier } = deployments, then
\* kycVerifier.MIN_AGE() and the other calls; it throws when MIN_AGE is not
\* a property of that object and when a call fails.
verifyDeployment(d, rpcOk) ==
    LET kycVerifier == d.kycVerifier
    IN IF "MIN_AGE" \notin DOMAIN kycVerifier THEN FALSE ELSE rpcOk

DeploySteps ==
    <<"main", "deployVerifier", "deployKYCVerifier", "setupTrustedIssuers",
      "saveDeploymentInfo", "verifyDeployment", "printDeploymentSummary">>

\* One awaited step of main: it is logged with its outcome, what it did is
\* added to the effects, and a step that throws ends the run in the catch
\* block with process.exit(1).
DeployStep(step, ok, effects) ==
    /\ dexit = <<>>
    /\ Len(dlog) < Len(DeploySteps)
    /\ DeploySteps[Len(dlog) + 1] = step
    /\ dlog' = Append(dlog, Step(step, ok))
    /\ deffects' = deffects \o effects
    /\ dexit' = IF ok THEN <<>> ELSE <<1>>
    /\ UNCHANGED <<clog, cexit, tresults, treturned>>
    /\ UNCHANGED <<vars, kvars>>

DeployStart(rpcOk, bal, verifierSol) ==
    /\ DeployStep("main", mainChecks(rpcOk, bal, verifierSol), <<>>)
    /\ denv' = <<[rpcOk |-> rpcOk, balance |-> bal,
                  verifierSol |-> verifierSol]>>

DeployVerifier(sent, waited) ==
    LET o == deployContract(sent, waited)
    IN /\ DeployStep("deployVerifier", o.ok,
                     SubSeq(<<"Verifier">>, 1, o.effects))
       /\ UNCHANGED denv

DeployKYCVerifier(sent, waited) ==
    LET o == deployContract(sent, waited)
    IN /\ DeployStep("deployKYCVerifier", o.ok,
                     SubSeq(<<"KYCVerifier">>, 1, o.effects))
       /\ UNCHANGED denv

SetupTrustedIssuers(sent, waited) ==
    LET o == setupTrustedIssuers(sent, waited)
    IN /\ DeployStep("setupTrustedIssuers", o.ok,
                     SubSeq(<<"addTrustedIssuer">>, 1, o.effects))
       /\ UNCHANGED denv

SaveDeploymentInfo(written) ==
    LET o == saveDeploymentInfo(written)
    IN /\ DeployStep("saveDeploymentInfo", o.ok,
                     SubSeq(DeploymentFiles, 1, o.effects))
       /\ UNCHANGED denv

\* The end of main: verifyDeployment, then printDeploymentSummary, which
\* only writes to the console, and process.exit(0) when main has resolved.
VerifyDeployment(rpcOk) ==
    /\ dexit = <<>>
    /\ Len(dlog) < Len(DeploySteps)
    /\ DeploySteps[Len(dlog) + 1] = "verifyDeployment"
    /\ IF verifyDeployment(deployments, rpcOk)
       THEN /\ dlog' = dlog \o <<Step("verifyDeployment", TRUE),
                                 Step("printDeploymentSummary", TRUE)>>
            /\ dexit' = <<0>>
       ELSE /\ dlog' = Append(dlog, Step("verifyDeployment", FALSE))
            /\ dexit' = <<1>>
    /\ UNCHANGED <<clog, cexit, tresults, treturned, deffects, denv>>
    /\ UNCHANGED <<vars, kvars>>

DeployNext ==
    \/ \E a, c \in BOOLEAN : \E b \in Balances : DeployStart(a, b, c)
    \/ \E a, b \in BOOLEAN : DeployVerifier(a, b)
    \/ \E a, b \in BOOLEAN : DeployKYCVerifier(a, b)
    \/ \E a, b \in BOOLEAN : SetupTrustedIssuers(a, b)
    \/ \E n \in 0..Len(DeploymentFiles) : SaveDeploymentInfo(n)
    \/ \E a \in BOOLEAN : VerifyDeployment(a)

-----------------------------------------------------------------------------
\* The scripts as processes of their own, run in any interleaving.
SNext == CompileNext \/ TestCasesNext \/ DeployNext

ScriptsSpec == Init /\ [][SNext]_allvars

-----------------------------------------------------------------------------
\* Properties of the scripts.

\* The steps of main of the compilation script in the order the
\* specification gives them.
PipelineOrder ==
    <<"ensureDirectoryExists(BUILD_DIR)", "ensureDirectoryExists(CONTRACTS_DIR)",
      "downloadPowersOfTau", "compileCircuit", "generateWitness",
      "trustedSetup", "generateSolidityVerifier", "generateProofTest",
      "printSummary">>

\* The steps main has run: the log without the dependency check before it.
PipelineRun == IF clog = <<>> THEN <<>> ELSE Tail(clog)

\* C38: the compile-circuit pipeline runs its steps in the fixed order ensure
\* directories, download powers of tau, compile circuit, generate witness,
\* trusted setup, generate Solidity verifier, test proof, summary: the steps
\* run are always the first steps of that order, each step but the last one
\* run has succeeded, a step that fails gives exit code 1 at once, exit code
\* 0 is given only when all steps have succeeded, and once there is an exit
\* code no step runs any more.
C38_PipelineOrderAndAbort ==
    /\ [](/\ Len(PipelineRun) <= Len(PipelineOrder)
          /\ \A i \in DOMAIN PipelineRun : PipelineRun[i].step = PipelineOrder[i]
          /\ \A i \in DOMAIN clog : i < Len(clog) => clog[i].ok
          /\ (cexit = <<1>>) = (clog # <<>> /\ ~clog[Len(clog)].ok)
          /\ (cexit = <<0>>) = (/\ Len(PipelineRun) = Len(PipelineOrder)
                                /\ \A i \in DOMAIN clog : clog[i].ok)
          /\ cexit \in {<<>>, <<0>>, <<1>>})
    /\ [][cexit # <<>> => UNCHANGED <<clog, cexit>>]_allvars
    /\ [][clog' # clog => /\ Len(clog') = Len(clog) + 1
                          /\ SubSeq(clog', 1, Len(clog)) = clog]_allvars

\* Witness: the witness generation failed after four steps of main had
\* succeeded, and the run ended with exit code 1.
C38_Witness ==
    /\ cexit = <<1>>
    /\ Len(PipelineRun) = 5
    /\ PipelineRun[5] = Step("generateWitness", FALSE)
    /\ \A i \in 1..4 : PipelineRun[i].ok

\* C39: generateTestCases returns exactly one result per test case, in
\* test-case order: while it runs, results holds the records of the first
\* test cases in order, each with the age of its test case; what it returns
\* has one record per test case; a case that threw is recorded with
\* success false and its error, a case that did not with success true and no
\* error; and whatever the earlier cases did, the next case can be processed
\* until all have been.
C39_OneResultPerTestCase ==
    /\ [](/\ Len(tresults) <= Len(testCases)
          /\ \A i \in DOMAIN tresults :
                /\ tresults[i].age = testCases[i].age
                /\ tresults[i].success = (tresults[i].error = OK)
          /\ treturned # <<>> =>
                /\ treturned = <<tresults>>
                /\ DOMAIN treturned[1] = DOMAIN testCases
          /\ (treturned = <<>> /\ Len(tresults) < Len(testCases)) =>
                \A a, b, c, d, e \in BOOLEAN :
                    ENABLED GenerateTestCase(a, b, c, d, e)
          /\ (treturned = <<>> /\ Len(tresults) = Len(testCases)) =>
                ENABLED GenerateTestCasesReturn)
    /\ [][tresults' # tresults =>
            \E a, b, c, d, e \in BOOLEAN :
                tresults' = Append(tresults,
                                   TestCaseResult(testCases[Len(tresults) + 1],
                                                  a, b, c, d, e))]_allvars
    /\ [][treturned # <<>> => UNCHANGED <<tresults, treturned>>]_allvars

\* Witness: the first test case threw in proof generation, the other two
\* were processed and succeeded, and the three records were returned.
C39_Witness ==
    /\ treturned = <<tresults>>
    /\ Len(tresults) = 3
    /\ ~tresults[1].success /\ tresults[1].error = ErrArtifacts
    /\ tresults[2].success /\ tresults[3].success

\* The order in which the specification has the deployment script act.
DeployOrder ==
    <<"Verifier", "KYCVerifier", "addTrustedIssuer">> \o DeploymentFiles

\* Whether something is among the effects of the deployment script.
Done(e) == \E i \in DOMAIN deffects : deffects[i] = e

\* main has read a zero balance, or has found contracts/Verifier.sol missing.
CannotDeploy ==
    /\ denv # <<>>
    /\ denv[1].rpcOk
    /\ denv[1].balance = 0 \/ ~denv[1].verifierSol

\* C40: the deployment script deploys nothing when the deployer balance is
\* zero or contracts/Verifier.sol is missing, and has then exited with code
\* 1 after its first step; otherwise the Verifier is deployed before the
\* KYCVerifier, the trusted issuer is added only after both are deployed,
\* and deployment information is saved only after the issuer was added:
\* what the script has done is always a beginning of that order, each thing
\* done once, and nothing is done before the checks or after the exit.
C40_DeployOrder ==
    /\ [](/\ CannotDeploy =>
                deffects = <<>> /\ dexit = <<1>> /\ Len(dlog) = 1
          /\ deffects = SubSeq(DeployOrder, 1, Len(deffects))
          /\ Len(deffects) <= Len(DeployOrder)
          /\ Done("KYCVerifier") => Done("Verifier")
          /\ Done("addTrustedIssuer") => Done("Verifier") /\ Done("KYCVerifier")
          /\ \A i \in DOMAIN DeploymentFiles :
                Done(DeploymentFiles[i]) => Done("addTrustedIssuer")
          /\ deffects # <<>> =>
                /\ denv # <<>>
                /\ denv[1].balance # 0
                /\ denv[1].verifierSol)
    /\ [][deffects' # deffects =>
            /\ dexit = <<>>
            /\ dlog # <<>>
            /\ \E i \in 1..Len(DeploymentFiles) :
                  /\ Len(deffects') = Len(deffects) + i
                  /\ SubSeq(deffects', 1, Len(deffects)) = deffects]_allvars

\* Witness: with a balance and Verifier.sol in place both contracts were
\* deployed, the issuer was added and the three files were saved.
C40_Witness ==
    /\ deffects = DeployOrder
    /\ denv # <<>> /\ denv[1].balance # 0 /\ denv[1].verifierSol
    /\ Len(dlog) = 5
    /\ dexit = <<>>

\* Witness: the balance was zero, nothing was deployed and the script exited
\* with code 1.
C40_ZeroBalanceSeen ==
    /\ CannotDeploy
    /\ denv[1].balance = 0
    /\ dexit = <<1>>

====
